---- MODULE Spec2Model ----
(***************************************************************************)
(* A model of the lox-rs pipeline: the token scanner, the single-pass      *)
(* Pratt compiler that emits bytecode into a Chunk, and the stack VM.      *)
(*                                                                         *)
(* Source text is a sequence of one-character strings.  A Value is a       *)
(* record with the same fields for every variant, so that any two values   *)
(* can be compared.  A Number is the exact rational n/d (d > 0, lowest     *)
(* terms); d = 0 encodes the f64 specials: n = 1 is +inf, n = -1 is -inf   *)
(* and n = 0 is NaN.  Rounding of f64 and the sign of zero are not         *)
(* modelled.                                                               *)
(***************************************************************************)
EXTENDS Integers, Sequences, FiniteSets, TLC

VARIABLES source, phase, comp, vm, result

vars == <<source, phase, comp, vm, result>>

(***************************************************************************)
(* Values (value.rs)                                                       *)
(***************************************************************************)
Abs(x) == IF x < 0 THEN -x ELSE x

Sign(x) == IF x < 0 THEN -1 ELSE IF x > 0 THEN 1 ELSE 0

RECURSIVE Gcd(_, _)
Gcd(a, b) == IF b = 0 THEN a ELSE Gcd(b, a % b)

ValueNil == [t |-> "Nil", b |-> FALSE, n |-> 0, d |-> 1, s |-> <<>>]

ValueBool(x) == [t |-> "Bool", b |-> x, n |-> 0, d |-> 1, s |-> <<>>]

ValueStr(x) == [t |-> "Str", b |-> FALSE, n |-> 0, d |-> 1, s |-> x]

\* Value::Number(f64): the rational n/d in lowest terms, or a special (d = 0)
ValueNumber(n, d) ==
    IF d = 0
    THEN [t |-> "Number", b |-> FALSE, n |-> Sign(n), d |-> 0, s |-> <<>>]
    ELSE LET g == Gcd(Abs(n), Abs(d))
             sg == IF d < 0 THEN -1 ELSE 1
         IN [t |-> "Number", b |-> FALSE, n |-> sg * (n \div g),
             d |-> Abs(d) \div g, s |-> <<>>]

IsNaN(v) == v.d = 0 /\ v.n = 0

\* is_truthy with the number 0 and the empty string falsy as well
is_truthy_zero_falsy(v) ==
    CASE v.t = "Nil" -> FALSE
      [] v.t = "Bool" -> v.b
      [] v.t = "Number" -> v.n # 0
      [] v.t = "Str" -> v.s # <<>>
      [] OTHER -> TRUE

\* Value::is_truthy
is_truthy(v) ==
    CASE v.t = "Nil" -> FALSE
      [] v.t = "Bool" -> v.b
      [] OTHER -> TRUE

\* derived PartialEq of Value: structural, with f64's NaN != NaN
ValueEq(l, r) ==
    IF l.t = "Number" /\ r.t = "Number"
    THEN ~IsNaN(l) /\ ~IsNaN(r) /\ l = r
    ELSE l = r

\* f64 arithmetic on the rational encoding
NumNeg(x) == ValueNumber(-x.n, x.d)

NumAdd(x, y) ==
    CASE IsNaN(x) \/ IsNaN(y) -> ValueNumber(0, 0)
      [] x.d = 0 /\ y.d = 0 -> IF x.n = y.n THEN x ELSE ValueNumber(0, 0)
      [] x.d = 0 -> x
      [] y.d = 0 -> y
      [] OTHER -> ValueNumber(x.n * y.d + y.n * x.d, x.d * y.d)

NumSub(x, y) == NumAdd(x, NumNeg(y))

NumMul(x, y) ==
    CASE IsNaN(x) \/ IsNaN(y) -> ValueNumber(0, 0)
      [] x.d = 0 \/ y.d = 0 -> ValueNumber(Sign(x.n) * Sign(y.n), 0)
      [] OTHER -> ValueNumber(x.n * y.n, x.d * y.d)

NumDiv(x, y) ==
    CASE IsNaN(x) \/ IsNaN(y) -> ValueNumber(0, 0)
      [] x.d = 0 /\ y.d = 0 -> ValueNumber(0, 0)
      [] x.d = 0 -> ValueNumber(IF y.n < 0 THEN -x.n ELSE x.n, 0)
      [] y.d = 0 -> ValueNumber(0, 1)
      [] y.n = 0 -> ValueNumber(Sign(x.n), 0)
      [] OTHER -> ValueNumber(x.n * y.d, x.d * y.n)

NumLt(x, y) ==
    CASE IsNaN(x) \/ IsNaN(y) -> FALSE
      [] x.d = 0 /\ y.d = 0 -> x.n < y.n
      [] x.d = 0 -> x.n < 0
      [] y.d = 0 -> y.n > 0
      [] OTHER -> x.n * y.d < y.n * x.d

NumGt(x, y) == NumLt(y, x)

DigitChar(k) ==
    CASE k = 0 -> "0" [] k = 1 -> "1" [] k = 2 -> "2" [] k = 3 -> "3"
      [] k = 4 -> "4" [] k = 5 -> "5" [] k = 6 -> "6" [] k = 7 -> "7"
      [] k = 8 -> "8" [] k = 9 -> "9"

RECURSIVE NatDigits(_)
NatDigits(k) ==
    IF k < 10 THEN <<DigitChar(k)>>
    ELSE NatDigits(k \div 10) \o <<DigitChar(k % 10)>>

\* the decimal expansion of rem/d after the point, at most k digits
RECURSIVE FracDigits(_, _, _)
FracDigits(rem, d, k) ==
    IF rem = 0 \/ k = 0 THEN <<>>
    ELSE <<DigitChar((rem * 10) \div d)>> \o FracDigits((rem * 10) % d, d, k - 1)

\* Display of f64: integers print without a point; a fraction prints its
\* decimal expansion (exact when it terminates within 16 digits)
DisplayNumber(x) ==
    CASE x.d = 0 /\ x.n = 0 -> <<"N", "a", "N">>
      [] x.d = 0 /\ x.n > 0 -> <<"i", "n", "f">>
      [] x.d = 0 /\ x.n < 0 -> <<"-", "i", "n", "f">>
      [] OTHER ->
           LET a == Abs(x.n)
               sg == IF x.n < 0 THEN <<"-">> ELSE <<>>
               fr == FracDigits(a % x.d, x.d, 16)
           IN sg \o NatDigits(a \div x.d)
                 \o (IF fr = <<>> THEN <<>> ELSE <<".">> \o fr)

\* impl Display for Value
Display(v) ==
    CASE v.t = "Nil" -> <<"n", "i", "l">>
      [] v.t = "Bool" -> IF v.b THEN <<"t", "r", "u", "e">>
                         ELSE <<"f", "a", "l", "s", "e">>
      [] v.t = "Number" -> DisplayNumber(v)
      [] v.t = "Str" -> v.s

\* the fractional part of the f64 is 0.0
FractIsZero(x) == x.d = 1

\* str::repeat
RECURSIVE Repeat(_, _)
Repeat(s, k) == IF k <= 0 THEN <<>> ELSE s \o Repeat(s, k - 1)

(***************************************************************************)
(* Scanner (scanner.rs)                                                    *)
(***************************************************************************)
Digits == {"0", "1", "2", "3", "4", "5", "6", "7", "8", "9"}

Letters ==
    {"a", "b", "c", "d", "e", "f", "g", "h", "i", "j", "k", "l", "m", "n",
     "o", "p", "q", "r", "s", "t", "u", "v", "w", "x", "y", "z",
     "A", "B", "C", "D", "E", "F", "G", "H", "I", "J", "K", "L", "M", "N",
     "O", "P", "Q", "R", "S", "T", "U", "V", "W", "X", "Y", "Z"}

Whitespace == {" ", "\t", "\n", "\r"}

is_valid_identifier_first(c) == c \in Letters \cup {"_"}

is_valid_identifier_rest(c) == is_valid_identifier_first(c) \/ c \in Digits

NoToken == [ttype |-> "None", lexeme |-> <<>>, line |-> 0]

\* Scanner::next: one character, counting lines
Scanner_next(src, ch) ==
    IF ch.current < Len(src)
    THEN [ch EXCEPT !.current = @ + 1,
                    !.line = IF src[ch.current + 1] = "\n" THEN @ + 1 ELSE @]
    ELSE ch

\* Scanner::next_if_match
next_if_match(src, ch, c) == ch.current < Len(src) /\ src[ch.current + 1] = c

\* take_while_ref(pred).count() for the predicate "is a member of S"
RECURSIVE take_while_ref(_, _, _)
take_while_ref(src, ch, S) ==
    IF ch.current < Len(src) /\ src[ch.current + 1] \in S
    THEN take_while_ref(src, Scanner_next(src, ch), S)
    ELSE ch

\* Scanner::make_lexeme_strip: the slice start..current-end_strip
make_lexeme_strip(src, ch, end_strip) ==
    SubSeq(src, ch.start + 1, ch.current - end_strip)

\* TokenScanner::make_token_strip; the scanner result is [ts, kind, tok]
make_token_strip(src, ts, ttype, end_strip) ==
    [ts |-> [ts EXCEPT !.chars.start = ts.chars.current],
     kind |-> "tok",
     tok |-> [ttype |-> ttype,
              lexeme |-> make_lexeme_strip(src, ts.chars, end_strip),
              line |-> ts.chars.line]]

make_token(src, ts, ttype) == make_token_strip(src, ts, ttype, 0)

\* TokenScanner::take_string: continue until " or ${ ; at end of input the
\* rest is returned as a Str token (after printing "Unterminated string!")
RECURSIVE take_string_loop(_, _, _)
take_string_loop(src, ts, dollar) ==
    IF ts.chars.current >= Len(src)
    THEN make_token(src, ts, "Str")
    ELSE LET t == src[ts.chars.current + 1]
             ts1 == [ts EXCEPT !.chars = Scanner_next(src, ts.chars)]
         IN CASE t = "\"" -> make_token_strip(src, ts1, "Str", 1)
              [] t = "$" -> take_string_loop(src, ts1, TRUE)
              [] t = "{" /\ dollar ->
                   make_token_strip(
                       src, [ts1 EXCEPT !.state = Append(@, "StrInterp")],
                       "StrInterp", 2)
              [] OTHER -> take_string_loop(src, ts1, FALSE)

\* take_string without the StrInterp context of `${`
take_string_no_context(src, ts) ==
    [take_string_loop(src, ts, FALSE) EXCEPT !.ts.state = ts.state]

take_string(src, ts) == take_string_loop(src, ts, FALSE)

\* TokenScanner::take_numeric
take_numeric(src, ts) ==
    LET c1 == take_while_ref(src, ts.chars, Digits)
        c2 == IF next_if_match(src, c1, ".")
              THEN take_while_ref(src, Scanner_next(src, c1), Digits)
              ELSE c1
    IN make_token(src, [ts EXCEPT !.chars = c2], "Number")

\* the keyword table of make_identifier_or_keyword
KeywordType(lexeme) ==
    CASE lexeme = <<"a", "n", "d">> -> "And"
      [] lexeme = <<"c", "l", "a", "s", "s">> -> "Class"
      [] lexeme = <<"e", "l", "s", "e">> -> "Else"
      [] lexeme = <<"f", "a", "l", "s", "e">> -> "False"
      [] lexeme = <<"f", "o", "r">> -> "For"
      [] lexeme = <<"f", "u", "n">> -> "Fun"
      [] lexeme = <<"i", "f">> -> "If"
      [] lexeme = <<"n", "i", "l">> -> "Nil"
      [] lexeme = <<"o", "r">> -> "Or"
      [] lexeme = <<"p", "r", "i", "n", "t">> -> "Print"
      [] lexeme = <<"r", "e", "t", "u", "r", "n">> -> "Return"
      [] lexeme = <<"s", "u", "p", "e", "r">> -> "Super"
      [] lexeme = <<"t", "h", "i", "s">> -> "This"
      [] lexeme = <<"t", "r", "u", "e">> -> "True"
      [] lexeme = <<"v", "a", "r">> -> "Var"
      [] lexeme = <<"v", "a", "l">> -> "Val"
      [] lexeme = <<"w", "h", "i", "l", "e">> -> "While"
      [] lexeme = <<"m", "a", "t", "c", "h">> -> "Match"
      [] OTHER -> "Ident"

\* TokenScanner::take_identifier_or_keyword
take_identifier_or_keyword(src, ts) ==
    LET c1 == take_while_ref(src, ts.chars, Letters \cup {"_"} \cup Digits)
        ts1 == [ts EXCEPT !.chars = c1]
    IN make_token(src, ts1, KeywordType(make_lexeme_strip(src, c1, 0)))

\* TokenScanner::take_until_newline
RECURSIVE take_until_newline(_, _)
take_until_newline(src, ch) ==
    IF ch.current >= Len(src) THEN [ch EXCEPT !.start = ch.current]
    ELSE IF src[ch.current + 1] = "\n"
         THEN LET c1 == Scanner_next(src, ch) IN [c1 EXCEPT !.start = c1.current]
         ELSE take_until_newline(src, Scanner_next(src, ch))

\* a one- or two-character operator: second character c2 gives ttype two
OneOrTwo(src, ts, c2, two, one) ==
    IF next_if_match(src, ts.chars, c2)
    THEN make_token(src, [ts EXCEPT !.chars = Scanner_next(src, @)], two)
    ELSE make_token(src, ts, one)

\* impl Iterator for TokenScanner: the next token, the end of input ("none")
\* or the abort of state.pop().expect("") on an empty brace stack ("panic")
RECURSIVE TokenScanner_next(_, _)
TokenScanner_next(src, ts) ==
    IF ts.force_str THEN take_string(src, [ts EXCEPT !.force_str = FALSE])
    ELSE
    LET ws == take_while_ref(src, ts.chars, Whitespace)
        c0 == [ws EXCEPT !.start = ws.current]
    IN IF c0.current >= Len(src)
       THEN [ts |-> [ts EXCEPT !.chars = c0], kind |-> "none", tok |-> NoToken]
       ELSE
       LET c == src[c0.current + 1]
           t1 == [ts EXCEPT !.chars = Scanner_next(src, c0)]
       IN CASE c \in Digits -> take_numeric(src, t1)
            [] is_valid_identifier_first(c) -> take_identifier_or_keyword(src, t1)
            [] c = "\"" ->
                 take_string(src, [t1 EXCEPT !.chars.start = t1.chars.current])
            [] c = "(" -> make_token(src, t1, "LParen")
            [] c = ")" -> make_token(src, t1, "RParen")
            [] c = "{" ->
                 make_token(src, [t1 EXCEPT !.state = Append(@, "General")], "LBrace")
            [] c = "}" ->
                 IF t1.state = <<>>
                 THEN [ts |-> t1, kind |-> "panic", tok |-> NoToken]
                 ELSE make_token(
                          src,
                          [t1 EXCEPT !.state = SubSeq(@, 1, Len(@) - 1),
                                     !.force_str = (t1.state[Len(t1.state)] = "StrInterp")],
                          "RBrace")
            [] c = ";" -> make_token(src, t1, "Semi")
            [] c = "," -> make_token(src, t1, "Comma")
            [] c = "." -> make_token(src, t1, "Dot")
            [] c = "-" -> make_token(src, t1, "Minus")
            [] c = "+" -> make_token(src, t1, "Plus")
            [] c = "|" -> make_token(src, t1, "Bar")
            [] c = "*" -> make_token(src, t1, "Star")
            [] c = "/" ->
                 IF next_if_match(src, t1.chars, "/")
                 THEN TokenScanner_next(
                          src,
                          [t1 EXCEPT !.chars =
                               take_until_newline(src, Scanner_next(src, t1.chars))])
                 ELSE make_token(src, t1, "Slash")
            [] c = "!" -> OneOrTwo(src, t1, "=", "BangEqual", "Bang")
            [] c = "=" ->
                 IF next_if_match(src, t1.chars, "=")
                 THEN make_token(src, [t1 EXCEPT !.chars = Scanner_next(src, @)],
                                 "EqualEqual")
                 ELSE OneOrTwo(src, t1, ">", "FatArrow", "Equal")
            [] c = "<" -> OneOrTwo(src, t1, "=", "LessEqual", "Less")
            [] c = ">" -> OneOrTwo(src, t1, "=", "GreaterEqual", "Greater")
            [] c = "?" -> OneOrTwo(src, t1, ":", "QuestionColon", "Question")
            [] c = ":" -> make_token(src, t1, "Colon")
            [] OTHER -> make_token(src, t1, "Error")

\* TokenScanner::from_source
from_source ==
    [chars |-> [start |-> 0, current |-> 0, line |-> 1],
     state |-> <<>>, force_str |-> FALSE]

\* The whole token stream of a source.  The scanner does not depend on the
\* compiler, so the lazily produced stream is this sequence; a final token
\* of ttype "Panic" stands for the abort the scanner raises at that point.
PanicToken == [ttype |-> "Panic", lexeme |-> <<>>, line |-> 0]

\* the loop `for token in scanner`, at most n iterations from the state ts:
\* [ts, toks, open], open while neither the end of input nor a panic came.
\* The iterations are split in halves; the tokens come in scanner order.
RECURSIVE ScanAll(_, _, _)
ScanJoin(first, rest) ==
    [ts |-> rest.ts, toks |-> first.toks \o rest.toks, open |-> rest.open]

ScanRest(src, first, n) ==
    IF ~first.open THEN first ELSE ScanJoin(first, ScanAll(src, first.ts, n))

ScanOne(r) ==
    CASE r.kind = "none" -> [ts |-> r.ts, toks |-> <<>>, open |-> FALSE]
      [] r.kind = "panic" -> [ts |-> r.ts, toks |-> <<PanicToken>>, open |-> FALSE]
      [] OTHER -> [ts |-> r.ts, toks |-> <<r.tok>>, open |-> TRUE]

ScanAll(src, ts, n) ==
    IF n <= 1 THEN ScanOne(TokenScanner_next(src, ts))
    ELSE ScanRest(src, ScanAll(src, ts, n \div 2), n - (n \div 2))

\* every iteration but the last consumes a character
Tokens(src) == ScanAll(src, from_source, Len(src) + 1).toks

(***************************************************************************)
(* Chunk (chunk.rs).  The label table, the monkey patches and the opcodes  *)
(* Dup, JumpF and JumpRelative are used by the compiler and the VM but are *)
(* not in this chunk.rs; they follow the bytecode table of the design.     *)
(***************************************************************************)
BC(op, arg) == [op |-> op, arg |-> arg]

\* u32::to_le_bytes
to_le_bytes(x) ==
    <<x % 256, (x \div 256) % 256, (x \div 65536) % 256, (x \div 16777216) % 256>>

\* u32::from_le_bytes of the four bytes after position p (1-based opcode index)
from_le_bytes(bytes, p) ==
    bytes[p + 1] + 256 * bytes[p + 2] + 65536 * bytes[p + 3] + 16777216 * bytes[p + 4]

\* the two-byte signed operand of a jump, little endian
jump_to_le_bytes(delta) ==
    LET u == delta % 65536 IN <<u % 256, u \div 256>>

jump_from_le_bytes(bytes, p) ==
    LET u == bytes[p + 1] + 256 * bytes[p + 2]
    IN IF u >= 32768 THEN u - 65536 ELSE u

\* whether a jump delta fits the operand
jump_fits(delta) == delta >= -32768 /\ delta <= 32767

\* ByteCode::from_constant_index
from_constant_index(index) ==
    IF index <= 255 THEN BC("Constant", index) ELSE BC("ConstantLong", index)

\* impl Default for Chunk
Chunk_default ==
    [bytecode |-> <<>>, constants |-> <<>>, global_slots |-> 0,
     line_info |-> << <<0, 0>> >>, labels |-> <<>>, pending_patches |-> <<>>,
     label_binds |-> <<>>]

\* Chunk::extend_line_info
extend_line_info(k, line, offset) ==
    IF k.line_info[Len(k.line_info)][1] # line
    THEN [k EXCEPT !.line_info = Append(@, <<line, offset>>)]
    ELSE k

\* Chunk::get_line: the last entry whose start offset is <= offset, mapped
\* with |l| l.1
RECURSIVE get_line_scan(_, _, _, _)
get_line_scan(info, offset, i, last) ==
    IF i > Len(info) \/ ~(info[i][2] <= offset) THEN last
    ELSE get_line_scan(info, offset, i + 1, info[i][2])

get_line(k, offset) == get_line_scan(k.line_info, offset, 1, 0)

\* Chunk::push_constant: (chunk, index)
push_constant(k, value) == [k EXCEPT !.constants = Append(@, value)]

\* the opcode byte of each instruction
OpByte(op) ==
    CASE op = "Return" -> 0 [] op = "Constant" -> 1 [] op = "ConstantLong" -> 2
      [] op = "Nil" -> 3 [] op = "True" -> 4 [] op = "False" -> 5
      [] op = "Negate" -> 16 [] op = "Add" -> 17 [] op = "Sub" -> 18
      [] op = "Mul" -> 19 [] op = "Div" -> 20
      [] op = "Not" -> 32 [] op = "Eq" -> 33 [] op = "Gt" -> 34 [] op = "Lt" -> 35
      [] op = "Pop" -> 64 [] op = "Dup" -> 65
      [] op = "SetGlobal" -> 96 [] op = "GetGlobal" -> 97
      [] op = "SetLocal" -> 98 [] op = "GetLocal" -> 99
      [] op = "JumpF" -> 112 [] op = "JumpRelative" -> 113
      [] op = "Print" -> 128

\* the bytes Chunk::push appends for an instruction
Encode(bc) ==
    CASE bc.op = "Constant" -> <<1, bc.arg>>
      [] bc.op \in {"ConstantLong", "SetGlobal", "GetGlobal", "SetLocal", "GetLocal"} ->
           <<OpByte(bc.op)>> \o to_le_bytes(bc.arg)
      [] bc.op \in {"JumpF", "JumpRelative"} ->
           <<OpByte(bc.op)>> \o jump_to_le_bytes(bc.arg)
      [] OTHER -> <<OpByte(bc.op)>>

\* Chunk::push
Chunk_push(k, bc, line) ==
    LET offset == Len(k.bytecode)
    IN extend_line_info([k EXCEPT !.bytecode = @ \o Encode(bc)], line, offset)

\* Chunk::allocate_new_label: the new label's id is Len(labels) before the call
\* (label_binds is a history of the chunk: how often push_label bound each label)
allocate_new_label(k) ==
    [k EXCEPT !.labels = Append(@, -1), !.label_binds = Append(@, 0)]

\* Chunk::push_label: bind the label to the current code offset
push_label(k, id) ==
    [k EXCEPT !.labels[id + 1] = Len(k.bytecode), !.label_binds[id + 1] = @ + 1]

\* Chunk::push_monkey_patch: emit op with operand 0 and record the patch
push_monkey_patch(k, op, line, id) ==
    LET at == Len(k.bytecode)
        k1 == Chunk_push(k, BC(op, 0), line)
    IN [k1 EXCEPT !.pending_patches = Append(@, [at |-> at, label |-> id, op |-> op])]

\* Chunk::resolve_monkey_patches: (chunk, ok)
RECURSIVE resolve_patches_from(_, _)
resolve_patches_from(k, i) ==
    IF i > Len(k.pending_patches) THEN [chunk |-> [k EXCEPT !.pending_patches = <<>>], ok |-> TRUE]
    ELSE LET p == k.pending_patches[i]
             target == k.labels[p.label + 1]
             delta == target - p.at
             b == jump_to_le_bytes(delta)
         IN IF target < 0 \/ ~jump_fits(delta)
            THEN [chunk |-> k, ok |-> FALSE]
            ELSE resolve_patches_from(
                     [k EXCEPT !.bytecode[p.at + 2] = b[1], !.bytecode[p.at + 3] = b[2]],
                     i + 1)

resolve_monkey_patches(k) == resolve_patches_from(k, 1)

\* the iterator reading one operand byte of ConstantLong
OperandWidth_short_long(byte) ==
    CASE byte \in {1, 2} -> 1
      [] byte \in {96, 97, 98, 99} -> 4
      [] byte \in {112, 113} -> 2
      [] OTHER -> 0

\* impl Iterator for ChunkIterator: decode the instruction at ptr (0-based).
\* kind is "some", "none" (end of the bytecode or an unknown opcode byte) or
\* "panic" (an operand that runs past the end of the buffer)
OperandWidth(byte) ==
    CASE byte = 1 -> 1
      [] byte \in {2, 96, 97, 98, 99} -> 4
      [] byte \in {112, 113} -> 2
      [] OTHER -> 0

KnownOpBytes ==
    {0, 1, 2, 3, 4, 5, 16, 17, 18, 19, 20, 32, 33, 34, 35, 64, 65, 96, 97, 98, 99,
     112, 113, 128}

OpOfByte(byte) ==
    CHOOSE op \in {"Return", "Constant", "ConstantLong", "Nil", "True", "False",
                   "Negate", "Add", "Sub", "Mul", "Div", "Not", "Eq", "Gt", "Lt",
                   "Pop", "Dup", "SetGlobal", "GetGlobal", "SetLocal", "GetLocal",
                   "JumpF", "JumpRelative", "Print"} : OpByte(op) = byte

ChunkIterator_next(k, ptr) ==
    IF ptr >= Len(k.bytecode) \/ ptr < 0
    THEN [kind |-> "none", offset |-> ptr, bc |-> BC("Return", 0), ptr |-> ptr]
    ELSE LET opcode == k.bytecode[ptr + 1]
             w == OperandWidth(opcode)
         IN IF opcode \notin KnownOpBytes
            THEN [kind |-> "none", offset |-> ptr, bc |-> BC("Return", 0), ptr |-> ptr + 1]
            ELSE IF ptr + 1 + w > Len(k.bytecode)
            THEN [kind |-> "panic", offset |-> ptr, bc |-> BC("Return", 0), ptr |-> ptr + 1]
            ELSE [kind |-> "some", offset |-> ptr,
                  bc |-> BC(OpOfByte(opcode),
                            CASE w = 1 -> k.bytecode[ptr + 2]
                              [] w = 4 -> from_le_bytes(k.bytecode, ptr + 1)
                              [] w = 2 -> jump_from_le_bytes(k.bytecode, ptr + 1)
                              [] OTHER -> 0),
                  ptr |-> ptr + 1 + w]

(***************************************************************************)
(* Compiler state (compiler.rs)                                            *)
(***************************************************************************)
\* enum Precedence as u8
PrecNone == 0
PrecAssignment == 1
PrecOr == 2
PrecAnd == 3
PrecEquality == 4
PrecComparison == 5
PrecElvis == 6
PrecTerm == 7
PrecFactor == 8
PrecUnary == 9

\* Precedence::next
Precedence_next(p) == p + 1

\* Precedence::of
Precedence_of(ttype) ==
    CASE ttype \in {"Minus", "Plus"} -> PrecTerm
      [] ttype \in {"Slash", "Star"} -> PrecFactor
      [] ttype = "EqualEqual" -> PrecEquality
      [] ttype \in {"Greater", "GreaterEqual", "Less", "LessEqual"} -> PrecComparison
      [] ttype = "And" -> PrecAnd
      [] ttype = "Or" -> PrecOr
      [] ttype = "QuestionColon" -> PrecElvis
      [] OTHER -> PrecNone

\* the byte order of the characters an identifier can hold
AsciiOrder ==
    <<"0", "1", "2", "3", "4", "5", "6", "7", "8", "9",
      "A", "B", "C", "D", "E", "F", "G", "H", "I", "J", "K", "L", "M", "N",
      "O", "P", "Q", "R", "S", "T", "U", "V", "W", "X", "Y", "Z", "_",
      "a", "b", "c", "d", "e", "f", "g", "h", "i", "j", "k", "l", "m", "n",
      "o", "p", "q", "r", "s", "t", "u", "v", "w", "x", "y", "z">>

CharRank(ch) == CHOOSE i \in 1..Len(AsciiOrder) : AsciiOrder[i] = ch

\* Ord for &str: lexicographic by bytes
RECURSIVE StrLess(_, _)
StrLess(a, b) ==
    CASE a = <<>> -> b # <<>>
      [] b = <<>> -> FALSE
      [] a[1] # b[1] -> CharRank(a[1]) < CharRank(b[1])
      [] OTHER -> StrLess(Tail(a), Tail(b))

\* GlobalBindings::default
GlobalBindings_default == [global_slots |-> <<>>, undeclared_globals |-> {}]

\* next_undeclared_slot leaving a slot out after the last entry
next_undeclared_slot_skip(g) ==
    IF DOMAIN g.global_slots = {} THEN 0
    ELSE LET last == CHOOSE x \in DOMAIN g.global_slots :
                         \A y \in DOMAIN g.global_slots : y = x \/ StrLess(y, x)
         IN g.global_slots[last] + 2

\* GlobalBindings::next_undeclared_slot: BTreeMap::last_entry is the entry
\* of the greatest key
next_undeclared_slot(g) ==
    IF DOMAIN g.global_slots = {} THEN 0
    ELSE LET last == CHOOSE x \in DOMAIN g.global_slots :
                         \A y \in DOMAIN g.global_slots : y = x \/ StrLess(y, x)
         IN g.global_slots[last] + 1

\* GlobalBindings::use_binding: (bindings, slot)
use_binding(g, name) ==
    LET next_idx == next_undeclared_slot(g)
    IN IF name \in DOMAIN g.global_slots
       THEN [g |-> g, slot |-> g.global_slots[name]]
       ELSE [g |-> [global_slots |-> (name :> next_idx) @@ g.global_slots,
                    undeclared_globals |-> g.undeclared_globals \cup {name}],
             slot |-> next_idx]

\* GlobalBindings::declare_binding: (bindings, Some(slot) or None)
declare_binding(g, name) ==
    LET g1 == [g EXCEPT !.undeclared_globals = @ \ {name}]
    IN IF name \in DOMAIN g1.global_slots
       THEN [g |-> g1, some |-> FALSE, slot |-> 0]
       ELSE LET next_idx == next_undeclared_slot(g1)
            IN [g |-> [g1 EXCEPT !.global_slots = (name :> next_idx) @@ @],
                some |-> TRUE, slot |-> next_idx]

\* Scope::default
Scope_default == [locals |-> <<>>, depth |-> 0]

\* Scope::find_index: the highest index of a local of that name, 0-based;
\* -1 stands for None
find_index(scope, name) ==
    LET hits == {i \in 1..Len(scope.locals) : scope.locals[i].name = name}
    IN IF hits = {} THEN -1
       ELSE (CHOOSE i \in hits : \A j \in hits : j <= i) - 1

\* Scope::increment_depth
increment_depth(scope) == [scope EXCEPT !.depth = @ + 1]

\* decrement_depth keeping the locals of the depth it leaves
decrement_depth_keep(scope) ==
    [scope |-> [locals |-> scope.locals, depth |-> scope.depth - 1], removed |-> 0]

\* Scope::decrement_depth: (scope, number of locals removed)
decrement_depth(scope) ==
    LET kept == SelectSeq(scope.locals, LAMBDA l : l.depth < scope.depth)
    IN [scope |-> [locals |-> kept, depth |-> scope.depth - 1],
        removed |-> Len(scope.locals) - Len(kept)]

\* add_local without the test of the rightmost local of that name
add_local_unchecked(scope, name, mutable) ==
    [scope |-> [scope EXCEPT !.locals =
                    Append(@, [depth |-> scope.depth, name |-> name,
                               mutable |-> mutable])],
     ok |-> TRUE]

\* Scope::add_local: (scope, success)
add_local(scope, name, mutable) ==
    LET i == find_index(scope, name)
    IN IF i >= 0 /\ scope.locals[i + 1].depth >= scope.depth
                 /\ scope.locals[i + 1].depth # -1
       THEN [scope |-> scope, ok |-> FALSE]
       ELSE [scope |-> [scope EXCEPT !.locals =
                            Append(@, [depth |-> scope.depth, name |-> name,
                                       mutable |-> mutable])],
             ok |-> TRUE]

\* Compiler::new.  err is "ok" while compilation goes on, "panic" when the
\* scanner aborted, otherwise the message report_error printed, with {} where
\* the message formats a name; err_arg is what was formatted into it
Compiler_new(src) ==
    [toks |-> Tokens(src), pos |-> 1, previous |-> NoToken,
     global_bindings |-> GlobalBindings_default, scope |-> Scope_default,
     chunk |-> Chunk_default, err |-> "ok", err_arg |-> <<>>]

\* ErrorIgnoreTokenScanner::next skips the Error tokens in front
RECURSIVE SkipErrors(_, _)
SkipErrors(toks, p) ==
    IF p <= Len(toks) /\ toks[p].ttype = "Error" THEN SkipErrors(toks, p + 1) ELSE p

\* PrevPeekable::peek
peek(c) ==
    LET q == SkipErrors(c.toks, c.pos)
    IN IF q > Len(c.toks) THEN NoToken ELSE c.toks[q]

\* PrevPeekable::next: the token taken is c.previous afterwards
scanner_next(c) ==
    IF c.err # "ok" THEN c
    ELSE LET q == SkipErrors(c.toks, c.pos)
         IN IF q > Len(c.toks) THEN [c EXCEPT !.pos = q, !.previous = NoToken]
            ELSE IF c.toks[q].ttype = "Panic" THEN [c EXCEPT !.err = "panic"]
            ELSE [c EXCEPT !.pos = q + 1, !.previous = c.toks[q]]

\* whether advance_if_match(ttype) returns Some
matches(c, ttype) == c.err = "ok" /\ peek(c).ttype = ttype

\* PrevPeekable::advance_if_match
advance_if_match(c, ttype) ==
    IF c.err # "ok" THEN c
    ELSE IF peek(c).ttype = "Panic" THEN [c EXCEPT !.err = "panic"]
    ELSE IF peek(c).ttype = ttype THEN scanner_next(c)
    ELSE c

Fail(c, msg) == IF c.err # "ok" THEN c ELSE [c EXCEPT !.err = msg]

\* report_error(tok, &format!(msg, arg)) and Err(InterpretError::Compiler)
FailWith(c, msg, arg) ==
    IF c.err # "ok" THEN c ELSE [c EXCEPT !.err = msg, !.err_arg = arg]

\* PrevPeekable::consume_token
consume_token(c, ttype, msg) ==
    LET c1 == scanner_next(c)
    IN IF c1.err # "ok" THEN c1
       ELSE IF c1.previous.ttype # ttype THEN Fail(c1, msg)
       ELSE c1

\* chunk operations on the compiler's chunk, skipped once compilation failed
emit(c, op, arg, line) ==
    IF c.err # "ok" THEN c ELSE [c EXCEPT !.chunk = Chunk_push(@, BC(op, arg), line)]

emit_patch(c, op, line, id) ==
    IF c.err # "ok" THEN c ELSE [c EXCEPT !.chunk = push_monkey_patch(@, op, line, id)]

emit_label(c, id) ==
    IF c.err # "ok" THEN c ELSE [c EXCEPT !.chunk = push_label(@, id)]

new_label(c) ==
    IF c.err # "ok" THEN c ELSE [c EXCEPT !.chunk = allocate_new_label(@)]

\* the id that allocate_new_label returns on c's chunk
label_id(c) == Len(c.chunk.labels)

\* Compiler::emit_constant
emit_constant(c, token, value) ==
    IF c.err # "ok" THEN c
    ELSE LET idx == Len(c.chunk.constants)
         IN [c EXCEPT !.chunk = Chunk_push(push_constant(@, value),
                                           from_constant_index(idx), token.line)]

\* str::parse::<f64> of a Number lexeme
RECURSIVE Pow10(_)
Pow10(k) == IF k = 0 THEN 1 ELSE 10 * Pow10(k - 1)

RECURSIVE DigitsValue(_)
DigitsValue(ds) ==
    IF ds = <<>> THEN 0
    ELSE 10 * DigitsValue(SubSeq(ds, 1, Len(ds) - 1))
         + (CHOOSE v \in 0..9 : DigitChar(v) = ds[Len(ds)])

parse_f64(lexeme) ==
    LET dots == {i \in 1..Len(lexeme) : lexeme[i] = "."}
        dot == IF dots = {} THEN Len(lexeme) + 1 ELSE CHOOSE i \in dots : TRUE
        ip == SubSeq(lexeme, 1, dot - 1)
        fp == SubSeq(lexeme, dot + 1, Len(lexeme))
    IN ValueNumber(DigitsValue(ip) * Pow10(Len(fp)) + DigitsValue(fp), Pow10(Len(fp)))

(***************************************************************************)
(* Expressions (expression.rs)                                             *)
(***************************************************************************)
RECURSIVE compile_precedence(_, _)
RECURSIVE infix_loop(_, _)
RECURSIVE string_interp_loop(_, _)
RECURSIVE compile_named_var(_, _, _)

compile_expression(c) == compile_precedence(c, PrecAssignment)

\* compile_and without the Pop of the left operand
compile_and_no_pop(c) ==
    emit_label(
        compile_precedence(
            emit_patch(new_label(c), "JumpF", c.previous.line, label_id(c)),
            PrecAnd),
        label_id(c))

\* compile_and binding its label before the right operand as well
compile_and_rebind(c) ==
    emit_label(
        compile_precedence(
            emit_label(
                emit(emit_patch(new_label(c), "JumpF", c.previous.line, label_id(c)),
                     "Pop", 0, c.previous.line),
                label_id(c)),
            PrecAnd),
        label_id(c))

\* Compiler::compile_and
compile_and(c) ==
    emit_label(
        compile_precedence(
            emit(emit_patch(new_label(c), "JumpF", c.previous.line, label_id(c)),
                 "Pop", 0, c.previous.line),
            PrecAnd),
        label_id(c))

\* Compiler::compile_or
compile_or(c) ==
    LET line == c.previous.line
        rhs == label_id(c)
        short_circuit == rhs + 1
    IN emit_label(
           compile_precedence(
               emit(emit_label(
                        emit_patch(
                            emit_patch(new_label(new_label(c)), "JumpF", line, rhs),
                            "JumpRelative", line, short_circuit),
                        rhs),
                    "Pop", 0, line),
               PrecOr),
           short_circuit)

\* compile_elvis without the Pop at short_circuit
compile_elvis_no_pop(c) ==
    LET line == c.previous.line
        exit == label_id(c)
        short_circuit == exit + 1
    IN emit_label(
           emit_label(
               emit_patch(
                   compile_precedence(
                       emit(emit(emit_patch(
                                     emit(emit(emit(new_label(new_label(c)),
                                                    "Dup", 0, line),
                                               "Nil", 0, line),
                                          "Eq", 0, line),
                                     "JumpF", line, short_circuit),
                                 "Pop", 0, line),
                            "Pop", 0, line),
                       PrecElvis),
                   "JumpRelative", line, exit),
               short_circuit),
           exit)

\* Compiler::compile_elvis
compile_elvis(c) ==
    LET line == c.previous.line
        exit == label_id(c)
        short_circuit == exit + 1
    IN emit_label(
           emit(emit_label(
                    emit_patch(
                        compile_precedence(
                            emit(emit(emit_patch(
                                          emit(emit(emit(new_label(new_label(c)),
                                                         "Dup", 0, line),
                                                    "Nil", 0, line),
                                               "Eq", 0, line),
                                          "JumpF", line, short_circuit),
                                      "Pop", 0, line),
                                 "Pop", 0, line),
                            PrecElvis),
                        "JumpRelative", line, exit),
                    short_circuit),
                "Pop", 0, line),
           exit)

\* Compiler::compile_number
compile_number(c) == emit_constant(c, c.previous, parse_f64(c.previous.lexeme))

\* Compiler::compile_string
compile_string(c) == emit_constant(c, c.previous, ValueStr(c.previous.lexeme))

\* Compiler::compile_string_interp
compile_string_interp(c) ==
    LET token == c.previous
    IN string_interp_loop(emit_constant(c, token, ValueStr(token.lexeme)), token.line)

\* the tail of the loop of compile_string_interp: a Str token ends the literal
interp_last_part(c4) ==
    emit(emit_constant(c4, c4.previous, ValueStr(c4.previous.lexeme)),
         "Add", 0, c4.previous.line)

interp_after_brace(c3, line) ==
    IF matches(c3, "Str") THEN interp_last_part(advance_if_match(c3, "Str"))
    ELSE string_interp_loop(advance_if_match(c3, "Str"), line)

\* the loop of compile_string_interp
string_interp_loop(c, line) ==
    IF c.err # "ok" THEN c
    ELSE interp_after_brace(
             consume_token(emit(compile_expression(c), "Add", 0, line), "RBrace",
                           "Expecting '}' after String interpolation"),
             line)

\* Compiler::compile_literal
compile_literal(c) == emit(c, c.previous.ttype, 0, c.previous.line)

\* compile_named_var without the test of `mutable`
named_var_access_unchecked(c1, name, can_assign, setop, getop, slot, mutable) ==
    IF can_assign /\ matches(c1, "Equal")
    THEN emit(compile_expression(advance_if_match(c1, "Equal")), setop, slot, name.line)
    ELSE emit(IF can_assign THEN advance_if_match(c1, "Equal") ELSE c1,
              getop, slot, name.line)

\* the second half of compile_named_var: an assignment or a read
named_var_access(c1, name, can_assign, setop, getop, slot, mutable) ==
    IF can_assign /\ matches(c1, "Equal")
    THEN IF ~mutable
         THEN FailWith(advance_if_match(c1, "Equal"), "Variable {} is not mutable",
                       name.lexeme)
         ELSE emit(compile_expression(advance_if_match(c1, "Equal")),
                   setop, slot, name.line)
    ELSE emit(IF can_assign THEN advance_if_match(c1, "Equal") ELSE c1,
              getop, slot, name.line)

\* Compiler::compile_named_var
compile_named_var(c, name, can_assign) ==
    LET v == find_index(c.scope, name.lexeme)
        u == use_binding(c.global_bindings, name.lexeme)
    IN IF v >= 0
       THEN named_var_access(c, name, can_assign, "SetLocal", "GetLocal", v,
                             c.scope.locals[v + 1].mutable)
       ELSE named_var_access([c EXCEPT !.global_bindings = u.g], name, can_assign,
                             "SetGlobal", "GetGlobal", u.slot, TRUE)

\* compile_var taking every variable name as assignable
compile_var_always_assign(c, can_assign) == compile_named_var(c, c.previous, TRUE)

\* Compiler::compile_var
compile_var(c, can_assign) == compile_named_var(c, c.previous, can_assign)

\* Compiler::compile_unary
compile_unary(c) ==
    emit(compile_precedence(c, PrecUnary),
         IF c.previous.ttype = "Minus" THEN "Negate" ELSE "Not", 0, c.previous.line)

\* the opcode(s) compile_binary pushes for the operator token op
binary_op(c1, op) ==
    LET code == CASE op.ttype = "Plus" -> "Add"
                  [] op.ttype = "Minus" -> "Sub"
                  [] op.ttype = "Star" -> "Mul"
                  [] op.ttype = "Slash" -> "Div"
                  [] op.ttype \in {"EqualEqual", "BangEqual"} -> "Eq"
                  [] op.ttype \in {"Greater", "GreaterEqual"} -> "Gt"
                  [] op.ttype \in {"Less", "LessEqual"} -> "Lt"
    IN IF op.ttype \in {"BangEqual", "GreaterEqual", "LessEqual"}
       THEN emit(emit(c1, code, 0, op.line), "Not", 0, op.line)
       ELSE emit(c1, code, 0, op.line)

\* compile_binary with the right operand compiled at the operator's own level
compile_binary_same_level(c) ==
    binary_op(compile_precedence(c, Precedence_of(c.previous.ttype)), c.previous)

\* Compiler::compile_binary
compile_binary(c) ==
    binary_op(compile_precedence(c, Precedence_next(Precedence_of(c.previous.ttype))),
              c.previous)

\* Compiler::compile_grouping
compile_grouping(c) ==
    consume_token(compile_expression(c), "RParen", "Expected ')' after expression")

\* the prefix dispatch of compile_precedence on the token just taken
compile_prefix(c, can_assign) ==
    LET t == c.previous.ttype
    IN CASE c.err # "ok" -> c
         [] t = "None" -> Fail(c, "EOF reached")
         [] t = "LParen" -> compile_grouping(c)
         [] t \in {"Minus", "Bang"} -> compile_unary(c)
         [] t = "Number" -> compile_number(c)
         [] t = "Str" -> compile_string(c)
         [] t = "StrInterp" -> compile_string_interp(c)
         [] t \in {"False", "True", "Nil"} -> compile_literal(c)
         [] t = "Ident" -> compile_var(c, can_assign)
         [] OTHER -> Fail(c, "Expected expression here")

\* the infix dispatch of compile_precedence on the token just taken
compile_infix(c) ==
    LET t == c.previous.ttype
    IN CASE c.err # "ok" -> c
         [] t \in {"Minus", "Plus", "Slash", "Star", "EqualEqual", "Greater",
                   "GreaterEqual", "Less", "LessEqual"} -> compile_binary(c)
         [] t = "And" -> compile_and(c)
         [] t = "Or" -> compile_or(c)
         [] t = "QuestionColon" -> compile_elvis(c)
         [] OTHER -> c

\* the infix loop of compile_precedence
infix_loop(c, precedence) ==
    IF c.err # "ok" THEN c
    ELSE LET tok == peek(c)
         IN CASE tok.ttype = "None" -> c
              [] tok.ttype = "Panic" -> [c EXCEPT !.err = "panic"]
              [] precedence > Precedence_of(tok.ttype) -> c
              [] OTHER -> infix_loop(compile_infix(scanner_next(c)), precedence)

\* the end of compile_precedence: an `=` left over is an error
check_assignable(c2, can_assign) ==
    IF can_assign /\ matches(c2, "Equal")
    THEN Fail(advance_if_match(c2, "Equal"),
              "Left hand side of the assignment is not assignable")
    ELSE IF can_assign THEN advance_if_match(c2, "Equal") ELSE c2

\* Compiler::compile_precedence
compile_precedence(c, precedence) ==
    IF c.err # "ok" THEN c
    ELSE check_assignable(
             infix_loop(compile_prefix(scanner_next(c), precedence <= PrecAssignment),
                        precedence),
             precedence <= PrecAssignment)

(***************************************************************************)
(* Declarations and statements (statement.rs).  self.chunk there is the    *)
(* chunk of the compiler's scope and JumpOffset is JumpRelative.           *)
(***************************************************************************)
RECURSIVE compile_decl(_)
RECURSIVE compile_statement(_)
RECURSIVE compile_block(_)
RECURSIVE match_arms(_, _, _, _)
RECURSIVE match_conditions(_, _, _)

\* emit n Pop instructions
RECURSIVE emit_pops(_, _, _)
emit_pops(c, n, line) ==
    IF n <= 0 THEN c ELSE emit_pops(emit(c, "Pop", 0, line), n - 1, line)

\* the end of compile_var_decl: a global is stored by SetGlobal, Pop
var_finish(c5, slot, tok) ==
    IF c5.err = "ok" /\ c5.scope.depth = 0
    THEN emit(emit(c5, "SetGlobal", slot, tok.line), "Pop", 0, tok.line)
    ELSE c5

\* the allocation of the local or of the global slot in compile_var_decl
var_declare(c3, tok, mutable) ==
    LET a == add_local(c3.scope, tok.lexeme, mutable)
        d == declare_binding(c3.global_bindings, tok.lexeme)
        semi == "Expected ';' after variable declaration"
    IN CASE c3.err # "ok" -> c3
         [] c3.scope.depth > 0 ->
              var_finish(
                  consume_token(
                      IF ~a.ok
                      THEN FailWith(c3, "Cannot redeclare variable '{}' in the same scope",
                                    tok.lexeme)
                      ELSE [c3 EXCEPT !.scope = a.scope],
                      "Semi", semi),
                  0, tok)
         [] OTHER ->
              var_finish(
                  consume_token(
                      CASE ~mutable ->
                             Fail(c3, "Immutable global variables are not allowed")
                        [] ~d.some ->
                             FailWith([c3 EXCEPT !.global_bindings = d.g],
                                      "Variable '{}' already declared", tok.lexeme)
                        [] OTHER -> [c3 EXCEPT !.global_bindings = d.g],
                      "Semi", semi),
                  d.slot, tok)

\* the initializer of compile_var_decl, Nil when there is none
var_initializer(c1, mutable) ==
    var_declare(IF matches(c1, "Equal")
                THEN compile_expression(advance_if_match(c1, "Equal"))
                ELSE emit(advance_if_match(c1, "Equal"), "Nil", 0, c1.previous.line),
                c1.previous, mutable)

\* Compiler::compile_var_decl
compile_var_decl(c, mutable) ==
    var_initializer(consume_token(c, "Ident", "Expected identifier after 'var'"),
                    mutable)

\* Compiler::compile_expression_statement
compile_expression_statement(c) ==
    consume_token(compile_expression(c), "Semi", "Expected ';' after expression")

\* Compiler::compile_print_statement
compile_print_statement(c) ==
    emit(consume_token(compile_expression(c), "Semi", "Expected ';' after value"),
         "Print", 0, c.previous.line)

\* the else branch of compile_if_statement
if_else(c10) ==
    IF matches(c10, "Else") THEN compile_statement(advance_if_match(c10, "Else"))
    ELSE advance_if_match(c10, "Else")

\* compile_if_statement after `compile_statement()?` of the true branch
if_then(c8, line, else_label) ==
    IF c8.err # "ok" THEN c8
    ELSE emit_label(
             if_else(
                 emit(emit_label(emit_patch(c8, "JumpRelative", line, else_label + 1),
                                 else_label),
                      "Pop", 0, line)),
             else_label + 1)

\* compile_if_statement after the condition: the labels else and end are
\* label_id(c3) and label_id(c3) + 1
if_branches(c3, line) ==
    IF c3.err # "ok" THEN c3
    ELSE if_then(
             compile_statement(
                 emit(emit_patch(new_label(new_label(c3)), "JumpF", line, label_id(c3)),
                      "Pop", 0, line)),
             line, label_id(c3))

\* Compiler::compile_if_statement
compile_if_statement(c) ==
    if_branches(
        consume_token(
            compile_expression(consume_token(c, "LParen", "Expected '(' after if")),
            "RParen", "Expected ')' after condition"),
        c.previous.line)

\* compile_while_statement without the jump back to the condition
compile_while_once(c) ==
    LET line == c.previous.line
        cond_label == label_id(c)
        end_label == cond_label + 1
    IN emit(emit_label(
                emit_patch(
                    compile_statement(
                        emit(emit_patch(
                                 consume_token(
                                     compile_expression(
                                         emit_label(
                                             consume_token(new_label(new_label(c)),
                                                           "LParen",
                                                           "Expected '(' after while"),
                                             cond_label)),
                                     "RParen", "Expected ')' after condition"),
                                 "JumpF", line, end_label),
                             "Pop", 0, line)),
                    "JumpRelative", line, end_label),
                end_label),
            "Pop", 0, line)

\* Compiler::compile_while_statement
compile_while_statement(c) ==
    LET line == c.previous.line
        cond_label == label_id(c)
        end_label == cond_label + 1
    IN emit(emit_label(
                emit_patch(
                    compile_statement(
                        emit(emit_patch(
                                 consume_token(
                                     compile_expression(
                                         emit_label(
                                             consume_token(new_label(new_label(c)),
                                                           "LParen",
                                                           "Expected '(' after while"),
                                             cond_label)),
                                     "RParen", "Expected ')' after condition"),
                                 "JumpF", line, end_label),
                             "Pop", 0, line)),
                    "JumpRelative", line, cond_label),
                end_label),
            "Pop", 0, line)

\* the three clauses of compile_for_statement
for_initializer(c2) ==
    IF matches(c2, "Semi") THEN advance_if_match(c2, "Semi")
    ELSE compile_decl(advance_if_match(c2, "Semi"))

\* a missing condition taken as false
for_false(c6) == emit(c6, "False", 0, c6.previous.line)

for_true(c6) == emit(c6, "True", 0, c6.previous.line)

for_condition(c5) ==
    IF matches(c5, "Semi") THEN for_true(advance_if_match(c5, "Semi"))
    ELSE consume_token(compile_expression(advance_if_match(c5, "Semi")),
                       "Semi", "Expected ';' after for condition")

for_increment(c10, line) ==
    IF matches(c10, "RParen") THEN advance_if_match(c10, "RParen")
    ELSE consume_token(
             emit(compile_expression(advance_if_match(c10, "RParen")), "Pop", 0, line),
             "RParen", "Expected ')' after for")

\* compile_for_statement after `compile_decl()?`: the condition
for_cond(c3, cond_label) ==
    IF c3.err # "ok" THEN c3 ELSE for_condition(emit_label(c3, cond_label))

\* compile_for_statement after the condition: the two jumps and the
\* increment
for_post(c5, line, cond_label) ==
    IF c5.err # "ok" THEN c5
    ELSE for_increment(
             emit_label(
                 emit_patch(emit_patch(c5, "JumpF", line, cond_label + 3),
                            "JumpRelative", line, cond_label + 2),
                 cond_label + 1),
             line)

\* compile_for_statement after the increment: the jump to the condition,
\* the body, the jump to the increment, the end
for_body(c12, line, cond_label) ==
    IF c12.err # "ok" THEN c12
    ELSE emit(emit_label(
                  emit_patch(
                      compile_statement(
                          emit(emit_label(
                                   emit_patch(c12, "JumpRelative", line, cond_label),
                                   cond_label + 2),
                               "Pop", 0, line)),
                      "JumpRelative", line, cond_label + 1),
                  cond_label + 3),
              "Pop", 0, line)

\* Compiler::compile_for_statement: the labels cond, post, body, end are
\* cond_label, cond_label + 1, cond_label + 2, cond_label + 3
compile_for_statement(c) ==
    for_body(
        for_post(
            for_cond(
                for_initializer(
                    consume_token(new_label(new_label(new_label(new_label(c)))),
                                  "LParen", "Expected '(' after 'for'")),
                label_id(c)),
            c.previous.line, label_id(c)),
        c.previous.line, label_id(c))

\* after one condition of a match arm: `|` continues with the next one
match_more(c6, line, this_statement) ==
    IF matches(c6, "Bar")
    THEN match_conditions(advance_if_match(c6, "Bar"), line, this_statement)
    ELSE advance_if_match(c6, "Bar")

\* a condition of a match arm after `compile_expression()?`
match_test(e, line, this_statement) ==
    IF e.err # "ok" THEN e
    ELSE match_more(
             emit(emit_patch(emit(emit(e, "Eq", 0, line), "Not", 0, line),
                             "JumpF", line, this_statement),
                  "Pop", 0, line),
             line, this_statement)

\* the loop over the conditions of one match arm
match_conditions(c, line, this_statement) ==
    IF c.err # "ok" THEN c
    ELSE IF matches(c, "Else")
    THEN emit_patch(emit(advance_if_match(c, "Else"), "Dup", 0, line),
                    "JumpRelative", line, this_statement)
    ELSE match_test(compile_expression(emit(advance_if_match(c, "Else"), "Dup", 0, line)),
                    line, this_statement)

\* one arm after its conditions: `=>`, the jump to the next arm, the
\* statement, the jump to the end; then the rest of the loop over the arms
match_arm_statement(a, line, end_label, this_statement, next2) ==
    IF a.err # "ok" THEN [c |-> a, next_branch |-> next2]
    ELSE match_arms(
             emit_patch(
                 compile_statement(
                     emit(emit_label(
                              emit_patch(
                                  consume_token(a, "FatArrow",
                                                "Expected '=>' after match conditions"),
                                  "JumpRelative", line, next2),
                              this_statement),
                          "Pop", 0, line)),
                 "JumpRelative", line, end_label),
             line, end_label, next2)

\* the loop over the arms of compile_match_statement: (compiler, next_branch)
match_arm_body(c3, line, end_label, this_statement, next2) ==
    match_arm_statement(match_conditions(c3, line, this_statement), line, end_label,
                        this_statement, next2)

match_arm_next(c2, line, end_label, this_statement) ==
    match_arm_body(new_label(c2), line, end_label, this_statement, label_id(c2))

match_arm(c0, line, end_label, next_branch) ==
    IF c0.err # "ok" THEN [c |-> c0, next_branch |-> next_branch]
    ELSE match_arm_next(emit_label(new_label(c0), next_branch), line, end_label,
                        label_id(c0))

match_arms(c, line, end_label, next_branch) ==
    IF c.err # "ok" THEN [c |-> c, next_branch |-> next_branch]
    ELSE IF matches(c, "RBrace")
    THEN [c |-> advance_if_match(c, "RBrace"), next_branch |-> next_branch]
    ELSE match_arm(advance_if_match(c, "RBrace"), line, end_label, next_branch)

\* the end of compile_match_statement without the Pop of the matched value
match_close_keeps_value(r, line, end_label) ==
    emit_label(emit_label(r.c, end_label), r.next_branch)

\* the end of compile_match_statement on the result of the loop over the arms
match_close(r, line, end_label) ==
    emit(emit_label(emit_label(r.c, end_label), r.next_branch), "Pop", 0, line)

\* compile_match_statement after the matched expression
match_open(c3, line) ==
    match_close(
        match_arms(consume_token(new_label(new_label(c3)), "LBrace",
                                 "Expected '{' after match expression"),
                   line, label_id(c3), label_id(c3) + 1),
        line, label_id(c3))

\* Compiler::compile_match_statement
compile_match_statement(c) ==
    match_open(
        consume_token(
            compile_expression(consume_token(c, "LParen", "Expected '(' after match")),
            "RParen", "Expected ')' after match expression"),
        c.previous.line)

\* Compiler::compile_block
compile_block(c) ==
    IF c.err # "ok" THEN c
    ELSE IF peek(c).ttype \in {"None", "RBrace"}
    THEN consume_token(c, "RBrace", "Expected '}' after block")
    ELSE compile_block(compile_decl(c))

\* the end of a block statement: leave the scope and pop its locals
end_block(b, line) ==
    LET dd == decrement_depth(b.scope)
    IN IF b.err # "ok" THEN b
       ELSE emit_pops([b EXCEPT !.scope = dd.scope], dd.removed, line)

\* the Pop after an expression statement
pop_value(e) == emit(e, "Pop", 0, e.previous.line)

\* Compiler::compile_statement
compile_statement(c) ==
    LET t == peek(c).ttype
    IN CASE c.err # "ok" -> c
         [] t = "Print" -> compile_print_statement(scanner_next(c))
         [] t = "If" -> compile_if_statement(scanner_next(c))
         [] t = "While" -> compile_while_statement(scanner_next(c))
         [] t = "For" -> compile_for_statement(scanner_next(c))
         [] t = "Match" -> compile_match_statement(scanner_next(c))
         [] t = "LBrace" ->
              end_block(
                  compile_block([scanner_next(c) EXCEPT !.scope = increment_depth(@)]),
                  peek(c).line)
         [] t = "Panic" -> scanner_next(c)
         [] OTHER -> pop_value(compile_expression_statement(c))

\* Compiler::compile_decl
compile_decl(c) ==
    IF c.err # "ok" THEN c
    ELSE
    LET t == peek(c).ttype
    IN CASE t = "Var" -> compile_var_decl(scanner_next(c), TRUE)
         [] t = "Val" -> compile_var_decl(scanner_next(c), FALSE)
         [] OTHER -> compile_statement(c)

(***************************************************************************)
(* VM (vm.rs)                                                              *)
(***************************************************************************)
NoReport == [line |-> -1, op |-> "None"]

\* VM::new; out is what Print has written, report what report_error printed
VM_new(k) ==
    [stack |-> <<>>, globals |-> [i \in 1..k.global_slots |-> ValueNil],
     ptr |-> 0, out |-> <<>>, report |-> NoReport]

Pop1(stack) == SubSeq(stack, 1, Len(stack) - 1)

Top(stack) == stack[Len(stack)]

Running(v) == [vm |-> v, res |-> "running"]

\* Err(InterpretError::Runtime) without a report (the ok_or(...)? exits)
RuntimeErr(v) == [vm |-> v, res |-> "Runtime"]

\* vm.rs report_error
report_error(v, k, offset, bc) ==
    [vm |-> [v EXCEPT !.report = [line |-> get_line(k, offset), op |-> bc.op]],
     res |-> "Runtime"]

\* the Add | Sub | Mul | Div arm without the arm (Add, l, Value::Str(r))
vm_arith_left_str_only(v, k, offset, bc) ==
    IF Len(v.stack) = 0 THEN RuntimeErr(v)
    ELSE IF Len(v.stack) = 1 THEN RuntimeErr([v EXCEPT !.stack = <<>>])
    ELSE LET r == Top(v.stack)
             l == Top(Pop1(v.stack))
             rest == Pop1(Pop1(v.stack))
             v2 == [v EXCEPT !.stack = rest]
             push(x) == Running([v EXCEPT !.stack = Append(rest, x)])
         IN CASE l.t = "Number" /\ r.t = "Number" ->
                   push(CASE bc.op = "Add" -> NumAdd(l, r)
                          [] bc.op = "Sub" -> NumSub(l, r)
                          [] bc.op = "Mul" -> NumMul(l, r)
                          [] bc.op = "Div" -> NumDiv(l, r))
              [] bc.op = "Add" /\ l.t = "Str" -> push(ValueStr(l.s \o Display(r)))
              [] bc.op = "Mul" /\ l.t = "Str" /\ r.t = "Number" /\ FractIsZero(r) ->
                   push(ValueStr(Repeat(l.s, r.n)))
              [] OTHER -> report_error(v2, k, offset, bc)

\* the Add | Sub | Mul | Div arm
vm_arith(v, k, offset, bc) ==
    IF Len(v.stack) = 0 THEN RuntimeErr(v)
    ELSE IF Len(v.stack) = 1 THEN RuntimeErr([v EXCEPT !.stack = <<>>])
    ELSE LET r == Top(v.stack)
             l == Top(Pop1(v.stack))
             rest == Pop1(Pop1(v.stack))
             v2 == [v EXCEPT !.stack = rest]
             push(x) == Running([v EXCEPT !.stack = Append(rest, x)])
         IN CASE l.t = "Number" /\ r.t = "Number" ->
                   push(CASE bc.op = "Add" -> NumAdd(l, r)
                          [] bc.op = "Sub" -> NumSub(l, r)
                          [] bc.op = "Mul" -> NumMul(l, r)
                          [] bc.op = "Div" -> NumDiv(l, r))
              [] bc.op = "Add" /\ l.t = "Str" -> push(ValueStr(l.s \o Display(r)))
              [] bc.op = "Add" /\ r.t = "Str" -> push(ValueStr(Display(l) \o r.s))
              [] bc.op = "Mul" /\ l.t = "Str" /\ r.t = "Number" /\ FractIsZero(r) ->
                   push(ValueStr(Repeat(l.s, r.n)))
              [] OTHER -> report_error(v2, k, offset, bc)

\* the Gt | Lt arm
vm_compare(v, k, offset, bc) ==
    IF Len(v.stack) = 0 THEN RuntimeErr(v)
    ELSE IF Len(v.stack) = 1 THEN RuntimeErr([v EXCEPT !.stack = <<>>])
    ELSE LET r == Top(v.stack)
             l == Top(Pop1(v.stack))
             rest == Pop1(Pop1(v.stack))
         IN IF l.t = "Number" /\ r.t = "Number"
            THEN Running([v EXCEPT !.stack =
                     Append(rest, ValueBool(IF bc.op = "Gt" THEN NumGt(l, r)
                                            ELSE NumLt(l, r)))])
            ELSE report_error([v EXCEPT !.stack = rest], k, offset, bc)

\* one iteration of the loop of VM::interpret: (vm, res) where res is
\* "running", "Ok", "Runtime" or "Panic" (an index out of range)
vm_step(v0, k) ==
    LET it == ChunkIterator_next(k, v0.ptr)
        offset == it.offset
        bc == it.bc
        v == [v0 EXCEPT !.ptr = it.ptr]
        n == Len(v.stack)
    IN CASE it.kind = "none" -> [vm |-> v, res |-> "Ok"]
         [] it.kind = "panic" -> [vm |-> v, res |-> "Panic"]
         [] bc.op = "Return" -> [vm |-> v, res |-> "Ok"]
         [] bc.op \in {"Constant", "ConstantLong"} ->
              IF bc.arg >= Len(k.constants) THEN [vm |-> v, res |-> "Panic"]
              ELSE Running([v EXCEPT !.stack = Append(@, k.constants[bc.arg + 1])])
         [] bc.op = "Nil" -> Running([v EXCEPT !.stack = Append(@, ValueNil)])
         [] bc.op = "True" -> Running([v EXCEPT !.stack = Append(@, ValueBool(TRUE))])
         [] bc.op = "False" -> Running([v EXCEPT !.stack = Append(@, ValueBool(FALSE))])
         [] bc.op = "Negate" ->
              IF n = 0 THEN RuntimeErr(v)
              ELSE IF Top(v.stack).t = "Number"
              THEN Running([v EXCEPT !.stack = Append(Pop1(@), NumNeg(Top(v.stack)))])
              ELSE report_error([v EXCEPT !.stack = Pop1(@)], k, offset, bc)
         [] bc.op \in {"Add", "Sub", "Mul", "Div"} -> vm_arith(v, k, offset, bc)
         [] bc.op = "Not" ->
              IF n = 0 THEN RuntimeErr(v)
              ELSE Running([v EXCEPT !.stack =
                       Append(Pop1(@), ValueBool(~is_truthy(Top(v.stack))))])
         [] bc.op = "Eq" ->
              IF n = 0 THEN RuntimeErr(v)
              ELSE IF n = 1 THEN RuntimeErr([v EXCEPT !.stack = <<>>])
              ELSE Running([v EXCEPT !.stack =
                       Append(Pop1(Pop1(@)),
                              ValueBool(ValueEq(Top(v.stack), Top(Pop1(v.stack)))))])
         [] bc.op \in {"Gt", "Lt"} -> vm_compare(v, k, offset, bc)
         [] bc.op = "Print" ->
              IF n = 0 THEN RuntimeErr(v)
              ELSE Running([v EXCEPT !.stack = Pop1(@),
                                     !.out = Append(@, Display(Top(v.stack)))])
         [] bc.op = "SetGlobal" ->
              IF n = 0 THEN RuntimeErr(v)
              ELSE IF bc.arg >= Len(v.globals) THEN [vm |-> v, res |-> "Panic"]
              ELSE Running([v EXCEPT !.globals[bc.arg + 1] = Top(v.stack)])
         [] bc.op = "GetGlobal" ->
              IF bc.arg >= Len(v.globals) THEN [vm |-> v, res |-> "Panic"]
              ELSE Running([v EXCEPT !.stack = Append(@, v.globals[bc.arg + 1])])
         [] bc.op = "SetLocal" ->
              IF n = 0 THEN RuntimeErr(v)
              ELSE IF bc.arg >= n THEN [vm |-> v, res |-> "Panic"]
              ELSE Running([v EXCEPT !.stack[bc.arg + 1] = Top(v.stack)])
         [] bc.op = "GetLocal" ->
              IF bc.arg >= n THEN [vm |-> v, res |-> "Panic"]
              ELSE Running([v EXCEPT !.stack = Append(@, v.stack[bc.arg + 1])])
         [] bc.op = "Pop" ->
              IF n = 0 THEN RuntimeErr(v)
              ELSE Running([v EXCEPT !.stack = Pop1(@)])
         [] bc.op = "Dup" ->
              IF n = 0 THEN RuntimeErr(v)
              ELSE Running([v EXCEPT !.stack = Append(@, Top(v.stack))])
         [] bc.op = "JumpF" ->
              IF n = 0 THEN RuntimeErr(v)
              ELSE IF ~is_truthy(Top(v.stack))
              THEN Running([v EXCEPT !.ptr = offset + bc.arg])
              ELSE Running(v)
         [] bc.op = "JumpRelative" -> Running([v EXCEPT !.ptr = offset + bc.arg])

(***************************************************************************)
(* Pipeline (pipeline.rs, Compiler::compile, VM::interpret)                *)
(***************************************************************************)
\* the end of Compiler::compile without the test of undeclared_globals
compile_finish_unchecked(c) ==
    LET k1 == Chunk_push(c.chunk, BC("Return", 0), 0)
        k2 == [k1 EXCEPT !.global_slots =
                   Cardinality(DOMAIN c.global_bindings.global_slots)]
        r == resolve_monkey_patches(k2)
    IN IF r.ok THEN [c EXCEPT !.chunk = r.chunk]
       ELSE Fail([c EXCEPT !.chunk = r.chunk], "Unresolved label")

\* the end of Compiler::compile, after the loop over the declarations
compile_finish(c) ==
    IF c.global_bindings.undeclared_globals # {}
    THEN FailWith(c, "The following global bindings were not declared but were used: {}",
                  c.global_bindings.undeclared_globals)
    ELSE LET k1 == Chunk_push(c.chunk, BC("Return", 0), 0)
             k2 == [k1 EXCEPT !.global_slots =
                        Cardinality(DOMAIN c.global_bindings.global_slots)]
             r == resolve_monkey_patches(k2)
         IN IF r.ok THEN [c EXCEPT !.chunk = r.chunk]
            ELSE Fail([c EXCEPT !.chunk = r.chunk], "Unresolved label")

\* what interpret_source returns for a compiler that stopped with err
ErrResult(err) == IF err = "panic" THEN "Panic" ELSE "Compiler"

\* Pipeline::interpret_source is entered with a source text
Start(src) ==
    /\ source = src
    /\ phase = "compile"
    /\ comp = Compiler_new(src)
    /\ vm = VM_new(Chunk_default)
    /\ result = "none"

\* one iteration of `while let Some(_) = self.scanner.peek() { compile_decl()? }`
CompileDecl ==
    /\ phase = "compile"
    /\ peek(comp).ttype # "None"
    /\ comp' = compile_decl(comp)
    /\ phase' = IF comp'.err = "ok" THEN "compile" ELSE "done"
    /\ result' = IF comp'.err = "ok" THEN "none" ELSE ErrResult(comp'.err)
    /\ UNCHANGED <<source, vm>>

\* the rest of Compiler::compile and the start of VM::interpret
CompileFinish ==
    /\ phase = "compile"
    /\ peek(comp).ttype = "None"
    /\ comp' = compile_finish(comp)
    /\ phase' = IF comp'.err = "ok" THEN "run" ELSE "done"
    /\ result' = IF comp'.err = "ok" THEN "none" ELSE ErrResult(comp'.err)
    /\ vm' = IF comp'.err = "ok" THEN VM_new(comp'.chunk) ELSE vm
    /\ UNCHANGED source

\* one iteration of the loop of VM::interpret
Interpret ==
    /\ phase = "run"
    /\ LET r == vm_step(vm, comp.chunk)
       IN /\ vm' = r.vm
          /\ phase' = IF r.res = "running" THEN "run" ELSE "done"
          /\ result' = IF r.res = "running" THEN "none" ELSE r.res
    /\ UNCHANGED <<source, comp>>

Next == CompileDecl \/ CompileFinish \/ Interpret

(***************************************************************************)
(* Source fragments                                                        *)
(***************************************************************************)
KwPrint == <<"p", "r", "i", "n", "t", " ">>

KwVar == <<"v", "a", "r", " ">>

\* the text of a binary operator token
OpChars(ttype) ==
    CASE ttype = "Plus" -> <<"+">>
      [] ttype = "Minus" -> <<"-">>
      [] ttype = "Star" -> <<"*">>
      [] ttype = "Slash" -> <<"/">>
      [] ttype = "Less" -> <<"<">>
      [] ttype = "Greater" -> <<">">>
      [] ttype = "EqualEqual" -> <<"=", "=">>

(***************************************************************************)
(* C1: expressions of number literals and + - * / < > ==                   *)
(***************************************************************************)
\* the number of binary operators in an expression
MaxOps == 3

\* the choices of literals: choice 0 makes every literal 2, choice r > 0
\* makes the literals r, r+1, ... (cyclically within 1..4)
MaxRot == 2

BinaryOps == {"Plus", "Minus", "Star", "Slash", "Less", "Greater", "EqualEqual"}

LitAt(rot, i) == IF rot = 0 THEN 2 ELSE ((i + rot - 2) % 4) + 1

RECURSIVE ExprChars(_, _, _)
ExprChars(ops, rot, i) ==
    IF i > Len(ops) THEN NatDigits(LitAt(rot, i))
    ELSE NatDigits(LitAt(rot, i)) \o <<" ">> \o OpChars(ops[i]) \o <<" ">>
         \o ExprChars(ops, rot, i + 1)

ExprPrograms ==
    {KwPrint \o ExprChars(ops, rot, 1) \o <<";">> :
        ops \in UNION {[1..n -> BinaryOps] : n \in 1..MaxOps}, rot \in 0..MaxRot}

InitExpr == \E src \in ExprPrograms : Start(src)

SpecExpr == InitExpr /\ [][Next]_vars

\* The value of the tree the claim describes, computed from the tokens by
\* splitting at the rightmost operator of the loosest level.
RefError == [t |-> "Error", b |-> FALSE, n |-> 0, d |-> 1, s |-> <<>>]

RefLevel(ttype) ==
    CASE ttype \in {"Star", "Slash"} -> 3
      [] ttype \in {"Plus", "Minus"} -> 2
      [] ttype \in {"Less", "Greater"} -> 1
      [] ttype = "EqualEqual" -> 0

RefApply(ttype, l, r) ==
    CASE l.t = "Error" \/ r.t = "Error" -> RefError
      [] ttype = "EqualEqual" -> ValueBool(ValueEq(l, r))
      [] l.t # "Number" \/ r.t # "Number" -> RefError
      [] ttype = "Plus" -> NumAdd(l, r)
      [] ttype = "Minus" -> NumSub(l, r)
      [] ttype = "Star" -> NumMul(l, r)
      [] ttype = "Slash" -> NumDiv(l, r)
      [] ttype = "Less" -> ValueBool(NumLt(l, r))
      [] ttype = "Greater" -> ValueBool(NumLt(r, l))

RECURSIVE RefEval(_)
RefEval(ts) ==
    IF Len(ts) = 1 THEN parse_f64(ts[1].lexeme)
    ELSE LET opIdx == {i \in 1..Len(ts) : i % 2 = 0}
             loosest == CHOOSE l \in 0..3 :
                            /\ \E i \in opIdx : RefLevel(ts[i].ttype) = l
                            /\ \A i \in opIdx : RefLevel(ts[i].ttype) >= l
             at == CHOOSE i \in opIdx :
                       /\ RefLevel(ts[i].ttype) = loosest
                       /\ \A j \in opIdx : RefLevel(ts[j].ttype) = loosest => j <= i
         IN RefApply(ts[at].ttype, RefEval(SubSeq(ts, 1, at - 1)),
                     RefEval(SubSeq(ts, at + 1, Len(ts))))

\* the expression tokens of `print <expr>;`
PrintedExpr == SubSeq(comp.toks, 2, Len(comp.toks) - 1)

\* C1: when the run of `print e;` has ended, it printed the value of the
\* tree of e in which * / bind tighter than + -, these tighter than < >,
\* these tighter than ==, and equal levels group to the left; when that
\* tree has no value (an operand of the wrong type) the run ended in a
\* Runtime error without printing.
C1_PrecedenceAndAssociativity ==
    phase = "done" =>
        LET v == RefEval(PrintedExpr)
        IN IF v.t = "Error"
           THEN result = "Runtime" /\ vm.out = <<>>
           ELSE result = "Ok" /\ vm.out = <<Display(v)>> /\ vm.stack = <<>>

\* `print 1 - 2 * 3 - 4;` printed -9, the value of (1 - (2 * 3)) - 4
C1_Witness ==
    /\ phase = "done"
    /\ source = KwPrint \o <<"1", " ", "-", " ", "2", " ", "*", " ", "3", " ", "-", " ", "4", ";">>
    /\ result = "Ok"
    /\ vm.out = << <<"-", "9">> >>

(***************************************************************************)
(* Programs of the statement-level claims                                  *)
(***************************************************************************)
\* `print 2;`
SrcPrint2 == <<"p", "r", "i", "n", "t", " ", "2", ";">>

\* what Print writes for the numbers 1, 2, ...
Out1 == <<"1">>

Out2 == <<"2">>

(***************************************************************************)
(* C2: a block-local declaration that shadows an outer binding             *)
(***************************************************************************)
\* `{ var a = a + 1; print a; } print a;`
ShadowBody == <<"{", " ", "v", "a", "r", " ", "a", " ", "=", " ", "a", " ", "+", " ", "1", ";",
    " ", "p", "r", "i", "n", "t", " ", "a", ";", " ", "}", " ", "p", "r", "i", "n", "t", " ", "a",
    ";">>

\* where `var a = 1;` and ShadowBody stand: at the top level, in a block, in
\* the body of an if, of a while or of a for, in the statement of a match arm
ScopeContexts == {"top", "block", "if", "while", "for", "match"}

ScopeProgram(ctx) ==
    CASE ctx = "top" -> <<"v", "a", "r", " ", "a", " ", "=", " ", "1", ";", " ">> \o ShadowBody
      [] ctx = "block" -> <<"{", " ", "v", "a", "r", " ", "a", " ", "=", " ", "1", ";",
          " ">> \o ShadowBody \o <<" ", "}">>
      [] ctx = "if" -> <<"i", "f", " ", "(", "t", "r", "u", "e", ")", " ", "{", " ", "v", "a",
          "r", " ", "a", " ", "=", " ", "1", ";", " ">> \o ShadowBody \o <<" ", "}">>
      [] ctx = "while" ->
           <<"v", "a", "r", " ", "n", " ", "=", " ", "0", ";", " ", "w", "h", "i", "l", "e", " ",
               "(", "n", " ", "<", " ", "1", ")", " ", "{", " ", "n", " ", "=", " ", "n", " ",
               "+", " ", "1", ";", " ", "v", "a", "r", " ", "a", " ", "=", " ", "1", ";",
               " ">> \o ShadowBody \o <<" ", "}">>
      [] ctx = "for" ->
           <<"f", "o", "r", " ", "(", "v", "a", "r", " ", "i", " ", "=", " ", "0", ";", " ", "i",
               " ", "<", " ", "1", ";", " ", "i", " ", "=", " ", "i", " ", "+", " ", "1", ")",
               " ", "{", " ", "v", "a", "r", " ", "a", " ", "=", " ", "1", ";",
               " ">> \o ShadowBody \o <<" ", "}">>
      [] ctx = "match" -> <<"m", "a", "t", "c", "h", " ", "(", "0", ")", " ", "{", " ", "0", " ",
          "=", ">", " ", "{", " ", "v", "a", "r", " ", "a", " ", "=", " ", "1", ";",
          " ">> \o ShadowBody \o <<" ", "}", " ", "}">>

ScopePrograms == {ScopeProgram(ctx) : ctx \in ScopeContexts}

\* C2: wherever the blocks stand, the initializer `a + 1` of the inner
\* declaration reads the outer a (1), the inner a (2) is what `print a`
\* inside the block shows, and after the block `print a` shows the outer a,
\* unchanged: the run prints 2 then 1.
C2_ShadowingInBlock ==
    phase = "done" /\ source \in ScopePrograms =>
        result = "Ok" /\ vm.out = <<Out2, Out1>>

(***************************************************************************)
(* C3: local slots and stack positions                                     *)
(***************************************************************************)
\* `{ var x = 5; var y = 7; x = y + 1; print x; print y; }`
LocalBody == <<"{", " ", "v", "a", "r", " ", "x", " ", "=", " ", "5", ";", " ", "v", "a", "r",
    " ", "y", " ", "=", " ", "7", ";", " ", "x", " ", "=", " ", "y", " ", "+", " ", "1", ";", " ",
    "p", "r", "i", "n", "t", " ", "x", ";", " ", "p", "r", "i", "n", "t", " ", "y", ";", " ", "}">>

\* the statement contexts in which the block LocalBody can stand
LocalContexts == {"block", "if", "else", "while", "for", "match"}

LocalProgram(ctx) ==
    CASE ctx = "block" -> LocalBody
      [] ctx = "if" -> <<"i", "f", " ", "(", "t", "r", "u", "e", ")", " ">> \o LocalBody
      [] ctx = "else" -> <<"i", "f", " ", "(", "f", "a", "l", "s", "e", ")", " ", "p", "r", "i",
          "n", "t", " ", "0", ";", " ", "e", "l", "s", "e", " ">> \o LocalBody
      [] ctx = "while" -> <<"v", "a", "r", " ", "n", " ", "=", " ", "0", ";", " ", "w", "h", "i",
          "l", "e", " ", "(", "n", " ", "<", " ", "1", ")", " ", "{", " ", "n", " ", "=", " ",
          "n", " ", "+", " ", "1", ";", " ">> \o LocalBody \o <<" ", "}">>
      [] ctx = "for" -> <<"f", "o", "r", " ", "(", "v", "a", "r", " ", "i", " ", "=", " ", "0",
          ";", " ", "i", " ", "<", " ", "1", ";", " ", "i", " ", "=", " ", "i", " ", "+", " ",
          "1", ")", " ">> \o LocalBody
      [] ctx = "match" -> <<"m", "a", "t", "c", "h", " ", "(", "1", ")", " ", "{", " ", "1", " ",
          "=", ">", " ">> \o LocalBody \o <<" ", "}">>

LocalPrograms == {LocalProgram(ctx) : ctx \in LocalContexts}

\* C3: in every statement context the GetLocal and SetLocal emitted for x
\* and y address the stack positions that hold x and y: `x = y + 1` stores
\* 8 in x and leaves y at 7, and the run prints 8 then 7.
C3_LocalSlotIsStackPosition ==
    phase = "done" /\ source \in LocalPrograms =>
        result = "Ok" /\ vm.out = <<<<"8">>, <<"7">>>>

(***************************************************************************)
(* C4: a global used before its declaration                                *)
(***************************************************************************)
\* programs that use the global a before `var a = 1;`
ForwardPrograms ==
    {<<"p", "r", "i", "n", "t", " ", "a", ";", " ", "v", "a", "r", " ", "a", " ", "=", " ", "1",
        ";">>,
     <<"a", " ", "=", " ", "2", ";", " ", "v", "a", "r", " ", "a", " ", "=", " ", "1", ";", " ",
         "p", "r", "i", "n", "t", " ", "a", ";">>,
     <<"{", " ", "p", "r", "i", "n", "t", " ", "a", ";", " ", "}", " ", "v", "a", "r", " ", "a",
         " ", "=", " ", "1", ";", " ", "p", "r", "i", "n", "t", " ", "a", ";">>}

\* C4: in a program that uses a global before declaring it, declare_binding
\* of a name that use_binding has reserved succeeds, returns the slot that
\* use_binding returned and takes the name out of the undeclared set, and
\* the program compiles and runs.
C4_ForwardReferenceCompiles ==
    source \in ForwardPrograms =>
        /\ \A name \in comp.global_bindings.undeclared_globals :
               /\ declare_binding(comp.global_bindings, name).some
               /\ declare_binding(comp.global_bindings, name).slot
                      = comp.global_bindings.global_slots[name]
               /\ name \notin declare_binding(comp.global_bindings, name).g.undeclared_globals
        /\ phase = "done" => result = "Ok"

(***************************************************************************)
(* C5: a global that is used and never declared                            *)
(***************************************************************************)
\* statements that use the global `missing`
UndeclaredUses ==
    {<<"p", "r", "i", "n", "t", " ", "m", "i", "s", "s", "i", "n", "g", ";">>,
     <<"m", "i", "s", "s", "i", "n", "g", " ", "=", " ", "3", ";">>,
     <<"p", "r", "i", "n", "t", " ", "1", " ", "+", " ", "m", "i", "s", "s", "i", "n", "g", ";">>,
     <<"{", " ", "v", "a", "r", " ", "x", " ", "=", " ", "1", ";", " ", "p", "r", "i", "n", "t",
         " ", "x", " ", "+", " ", "m", "i", "s", "s", "i", "n", "g", ";", " ", "}">>,
     <<"i", "f", " ", "(", "f", "a", "l", "s", "e", ")", " ", "p", "r", "i", "n", "t", " ", "m",
         "i", "s", "s", "i", "n", "g", ";">>,
     <<"w", "h", "i", "l", "e", " ", "(", "f", "a", "l", "s", "e", ")", " ", "p", "r", "i", "n",
         "t", " ", "m", "i", "s", "s", "i", "n", "g", ";">>,
     <<"p", "r", "i", "n", "t", " ", "n", "i", "l", " ", "?", ":", " ", "m", "i", "s", "s", "i",
         "n", "g", ";">>,
     <<"m", "a", "t", "c", "h", " ", "(", "1", ")", " ", "{", " ", "2", " ", "=", ">", " ", "p",
         "r", "i", "n", "t", " ", "m", "i", "s", "s", "i", "n", "g", ";", " ", "}">>}

\* what stands before and after the use; nothing here declares `missing`
UndeclaredPrefixes == {<<>>, <<"p", "r", "i", "n", "t", " ", "1", ";", " ">>, <<"v", "a", "r",
    " ", "a", " ", "=", " ", "1", ";", " ", "p", "r", "i", "n", "t", " ", "a", ";", " ">>}

UndeclaredSuffixes == {<<>>, <<" ", "p", "r", "i", "n", "t", " ", "2", ";">>, <<" ", "v", "a",
    "r", " ", "z", " ", "=", " ", "1", ";", " ", "p", "r", "i", "n", "t", " ", "z", ";">>}

UndeclaredPrograms ==
    {pre \o use \o post :
        pre \in UndeclaredPrefixes, use \in UndeclaredUses, post \in UndeclaredSuffixes}

\* C5: no program runs while a used global is undeclared; a program that
\* uses `missing` and never declares it is parsed to its end, compilation
\* then fails with the error that lists `missing`, interpret_source returns
\* the Compiler error, and nothing was executed or printed.
C5_UndeclaredGlobalFails ==
    /\ phase = "run" => comp.global_bindings.undeclared_globals = {}
    /\ source \in UndeclaredPrograms =>
           /\ phase # "run"
           /\ vm.out = <<>>
           /\ vm.ptr = 0
           /\ phase = "done" =>
                  /\ result = "Compiler"
                  /\ comp.err = "The following global bindings were not declared but were used: {}"
                  /\ <<"m", "i", "s", "s", "i", "n", "g">> \in comp.err_arg
                  /\ peek(comp).ttype = "None"

\* `print 1; print missing; print 2;` ended with the error listing `missing`
C5_Witness ==
    /\ phase = "done"
    /\ source = <<"p", "r", "i", "n", "t", " ", "1", ";", " ", "p", "r", "i", "n", "t", " ", "m",
        "i", "s", "s", "i", "n", "g", ";", " ", "p", "r", "i", "n", "t", " ", "2", ";">>
    /\ result = "Compiler"
    /\ comp.err_arg = {<<"m", "i", "s", "s", "i", "n", "g">>}
    /\ vm.out = <<>>

(***************************************************************************)
(* C6: assignment to a val                                                 *)
(***************************************************************************)
ValNames == {<<"x">>, <<"y">>}

\* `val x = 10; x = 11;` at the top level
ValTop(name) == <<"v", "a", "l", " ">> \o name \o <<" ", "=", " ", "1", "0", ";",
    " ">> \o name \o <<" ", "=", " ", "1", "1", ";">>

\* the forms of a val declared in a block and assigned in its scope
ValForms == {"block", "nested", "used", "if", "shadow", "operand"}

ValLocal(form, name) ==
    CASE form = "block" -> <<"{", " ">> \o ValTop(name) \o <<" ", "}">>
      [] form = "nested" ->
           <<"{", " ", "v", "a", "l", " ">> \o name \o <<" ", "=", " ", "1", "0", ";", " ", "{",
               " ">> \o name \o <<" ", "=", " ", "1", "1", ";", " ", "}", " ", "}">>
      [] form = "used" ->
           <<"{", " ", "v", "a", "l", " ">> \o name \o <<" ", "=", " ", "1", "0", ";", " ", "p",
               "r", "i", "n", "t", " ">> \o name \o <<";", " ">> \o name \o <<" ", "=", " ">>
           \o name \o <<" ", "+", " ", "1", ";", " ", "}">>
      [] form = "if" -> <<"i", "f", " ", "(", "t", "r", "u", "e", ")", " ", "{",
          " ">> \o ValTop(name) \o <<" ", "}">>
      [] form = "shadow" ->
           <<"{", " ", "v", "a", "r", " ">> \o name \o <<" ", "=", " ", "1", ";", " ", "{", " ",
               "v", "a", "l", " ">> \o name \o <<" ", "=", " ", "2", ";", " ">> \o name
           \o <<" ", "=", " ", "3", ";", " ", "}", " ", "}">>
      [] form = "operand" ->
           <<"{", " ", "v", "a", "l", " ">> \o name \o <<" ", "=", " ", "1", "0", ";", " ", "p",
               "r", "i", "n", "t", " ", "(">> \o name \o <<" ", "=", " ", "1", "1", ")", " ", "+",
               " ", "1", ";", " ", "}">>

ValPrograms ==
    {ValTop(name) : name \in ValNames}
        \cup {ValLocal(form, name) : form \in ValForms, name \in ValNames}

\* the opcodes of the chunk from ptr on
RECURSIVE EmittedOps(_, _)
EmittedOps(k, ptr) ==
    IF ChunkIterator_next(k, ptr).kind # "some" THEN {}
    ELSE {ChunkIterator_next(k, ptr).bc.op}
             \cup EmittedOps(k, ChunkIterator_next(k, ptr).ptr)

\* C6 as stated: the top-level program `val x = 10; x = 11;` fails with
\* "Variable x is not mutable".
C6_TopLevelValNotMutable ==
    phase = "done" /\ source = ValTop(<<"x">>) =>
        /\ result = "Compiler"
        /\ comp.err = "Variable {} is not mutable"
        /\ comp.err_arg = <<"x">>

\* C6 amended: the top-level program `val x = 10; x = 11;` fails at the
\* declaration with "Immutable global variables are not allowed"; an
\* assignment to a val declared in a block fails with "Variable x is not
\* mutable"; in both cases interpret_source returns the Compiler error,
\* nothing runs, and no SetLocal or SetGlobal has been emitted.
C6_ValAssignmentRejected ==
    source \in ValPrograms =>
        /\ phase # "run"
        /\ {"SetLocal", "SetGlobal"} \cap EmittedOps(comp.chunk, 0) = {}
        /\ phase = "done" =>
               /\ result = "Compiler"
               /\ \A name \in ValNames :
                      /\ source = ValTop(name) =>
                             comp.err = "Immutable global variables are not allowed"
                      /\ \A form \in ValForms :
                             source = ValLocal(form, name) =>
                                 /\ comp.err = "Variable {} is not mutable"
                                 /\ comp.err_arg = name

\* `{ val x = 10; x = 11; }` ended with "Variable x is not mutable"
C6_Witness ==
    /\ phase = "done"
    /\ source = ValLocal("block", <<"x">>)
    /\ result = "Compiler"
    /\ comp.err = "Variable {} is not mutable"
    /\ comp.err_arg = <<"x">>
    /\ "GetLocal" \notin EmittedOps(comp.chunk, 0)

(***************************************************************************)
(* C7: string literals with k interpolations                               *)
(***************************************************************************)
\* the greatest number of interpolations in one literal
MaxInterp == 2

\* the parts `a${i}` ... `a${k}` of the literal
RECURSIVE InterpParts(_, _)
InterpParts(i, k) ==
    IF i > k THEN <<>>
    ELSE <<"a", "$", "{">> \o NatDigits(i) \o <<"}">> \o InterpParts(i + 1, k)

\* `print "a${1}a${2}...a${k}z";`
InterpProgram(k) == KwPrint \o <<"\"">> \o InterpParts(1, k) \o <<"z">> \o <<"\"", ";">>

\* the text fragments and the display forms of 1..k in source order
RECURSIVE InterpValue(_, _)
InterpValue(i, k) ==
    IF i > k THEN <<"z">>
    ELSE <<"a">> \o Display(ValueNumber(i, 1)) \o InterpValue(i + 1, k)

InterpPrograms == {InterpProgram(k) : k \in 1..MaxInterp}

\* C7: a literal with k >= 1 interpolations compiles and evaluates to the
\* concatenation of its fragments and the display forms of its expressions
\* in source order.
C7_InterpolationConcatenates ==
    \A k \in 1..MaxInterp :
        phase = "done" /\ source = InterpProgram(k) =>
            result = "Ok" /\ vm.out = <<InterpValue(1, k)>>

(***************************************************************************)
(* C8: match                                                               *)
(***************************************************************************)
\* the greatest number of arms of a match statement
MaxArms == 2

\* the values the matched expression takes
MatchValues == {1, 2}

\* the patterns of one arm: numbers, and 0 for `else`, which ends the list
PatternLists ==
    {<<p>> : p \in {0, 1, 2}} \cup {<<p, q>> : p \in {1, 2}, q \in {0, 1, 2}}

ArmLists == UNION {[1..n -> PatternLists] : n \in 0..MaxArms}

\* the number of patterns of an arm that are expressions
NonElse(ps) == Cardinality({j \in 1..Len(ps) : ps[j] # 0})

\* the patterns of one arm from the j-th on; the k-th pattern expression of
\* the statement is `(t = t * 10 + k) * 0 + p`, so that t records which
\* pattern expressions were evaluated, and in which order
RECURSIVE PatternsText(_, _, _)
PatternsText(ps, j, k) ==
    IF j > Len(ps) THEN <<>>
    ELSE (IF j > 1 THEN <<" ", "|", " ">> ELSE <<>>)
         \o (IF ps[j] = 0 THEN <<"e", "l", "s", "e">>
             ELSE <<"(", "t", " ", "=", " ", "t", " ", "*", " ", "1", "0", " ", "+",
                 " ">> \o NatDigits(k) \o <<")", " ", "*", " ", "0", " ", "+",
                 " ">> \o NatDigits(ps[j]))
         \o PatternsText(ps, j + 1, IF ps[j] = 0 THEN k ELSE k + 1)

\* the arms from the i-th on; the statement of arm i is `print "a<i>";`
RECURSIVE ArmsText(_, _, _)
ArmsText(arms, i, k) ==
    IF i > Len(arms) THEN <<>>
    ELSE PatternsText(arms[i], 1, k) \o <<" ", "=", ">", " ", "p", "r", "i", "n", "t",
        " ">> \o <<"\"", "a">> \o NatDigits(i)
         \o <<"\"", ";", " ">> \o ArmsText(arms, i + 1, k + NonElse(arms[i]))

\* `var n = 0; var t = 0; match (n = n + e) { arms } print n; print t;`
MatchProgram(e, arms) ==
    <<"v", "a", "r", " ", "n", " ", "=", " ", "0", ";", " ", "v", "a", "r", " ", "t", " ", "=",
        " ", "0", ";", " ", "m", "a", "t", "c", "h", " ", "(", "n", " ", "=", " ", "n", " ", "+",
        " ">> \o NatDigits(e) \o <<")", " ", "{", " ">>
    \o ArmsText(arms, 1, 1) \o <<"}", " ", "p", "r", "i", "n", "t", " ", "n", ";", " ", "p", "r",
        "i", "n", "t", " ", "t", ";">>

\* the patterns of the arms in source order, each with the number of its arm
RECURSIVE FlatPatterns(_, _)
FlatPatterns(arms, i) ==
    IF i > Len(arms) THEN <<>>
    ELSE [j \in 1..Len(arms[i]) |-> [arm |-> i, val |-> arms[i][j]]]
         \o FlatPatterns(arms, i + 1)

\* the positions of the patterns that match e
Hits(flat, e) == {j \in 1..Len(flat) : flat[j].val \in {0, e}}

FirstHit(flat, e) == CHOOSE j \in Hits(flat, e) : \A h \in Hits(flat, e) : j <= h

\* the value of t after the pattern expressions 1..count were evaluated in order
RECURSIVE TraceNumber(_)
TraceNumber(count) == IF count = 0 THEN 0 ELSE TraceNumber(count - 1) * 10 + count

ShowNumber(x) == Display(ValueNumber(x, 1))

\* what the program prints when the first matching arm alone is executed,
\* e is evaluated once and the patterns are tested in source order up to the
\* first that matches
MatchOutput(e, flat) ==
    IF Hits(flat, e) = {}
    THEN <<ShowNumber(e),
           ShowNumber(TraceNumber(Cardinality({j \in 1..Len(flat) : flat[j].val # 0})))>>
    ELSE <<<<"a">> \o NatDigits(flat[FirstHit(flat, e)].arm),
           ShowNumber(e),
           ShowNumber(TraceNumber(Cardinality(
               {j \in 1..FirstHit(flat, e) : flat[j].val # 0})))>>

MatchCases ==
    {[src |-> MatchProgram(e, arms), out |-> MatchOutput(e, FlatPatterns(arms, 1))] :
        e \in MatchValues, arms \in ArmLists}

MatchPrograms == {cs.src : cs \in MatchCases}

\* C8: the run of a match statement evaluated the matched expression once
\* (n is e), evaluated the pattern expressions in source order up to the
\* first pattern equal to e or `else` (t), executed the statement of that
\* arm and of no other (none when no pattern matches), and left the stack
\* at the height it had before the statement.
C8_MatchFirstArmWins ==
    phase = "done" =>
        \A cs \in MatchCases :
            source = cs.src => result = "Ok" /\ vm.out = cs.out /\ vm.stack = <<>>

\* `match (n = n + 2) { p1 * 0 + 1 => print "a1"; p2 * 0 + 1 | p3 * 0 + 2 => print "a2"; }`
\* printed a2, then n = 2 and t = 123
C8_Witness ==
    /\ phase = "done"
    /\ source = MatchProgram(2, << <<1>>, <<1, 2>> >>)
    /\ result = "Ok"
    /\ vm.out = <<<<"a", "2">>, <<"2">>, <<"1", "2", "3">>>>
    /\ vm.stack = <<>>

(***************************************************************************)
(* C9, C10: the short-circuit operators ?: and or                          *)
(***************************************************************************)
\* the left operand a: its text, its value, and the value of n afterwards
\* (the program starts with n = 0)
LeftForms ==
    {[txt |-> <<"n", "i", "l">>, val |-> ValueNil, n |-> ValueNumber(0, 1)],
     [txt |-> <<"f", "a", "l", "s", "e">>, val |-> ValueBool(FALSE), n |-> ValueNumber(0, 1)],
     [txt |-> <<"t", "r", "u", "e">>, val |-> ValueBool(TRUE), n |-> ValueNumber(0, 1)],
     [txt |-> <<"0">>, val |-> ValueNumber(0, 1), n |-> ValueNumber(0, 1)],
     [txt |-> <<"\"", "s", "\"">>, val |-> ValueStr(<<"s">>), n |-> ValueNumber(0, 1)],
     [txt |-> <<"(", "n", " ", "=", " ", "n", " ", "+", " ", "1",
         ")">>, val |-> ValueNumber(1, 1), n |-> ValueNumber(1, 1)],
     [txt |-> <<"(", "n", " ", "=", " ", "n", "i", "l", ")">>, val |-> ValueNil, n |-> ValueNil],
     [txt |-> <<"(", "n", " ", "=", " ", "f", "a", "l", "s", "e",
         ")">>, val |-> ValueBool(FALSE), n |-> ValueBool(FALSE)]}

\* the right operand b assigns its value to m (the program starts with m = 0)
RightForms ==
    {[txt |-> <<"(", "m", " ", "=", " ", "7", ")">>, val |-> ValueNumber(7, 1)],
     [txt |-> <<"(", "m", " ", "=", " ", "n", "i", "l", ")">>, val |-> ValueNil],
     [txt |-> <<"(", "m", " ", "=", " ", "f", "a", "l", "s", "e", ")">>, val |-> ValueBool(FALSE)],
     [txt |-> <<"(", "m", " ", "=", " ", "\"", "b", "\"", ")">>, val |-> ValueStr(<<"b">>)]}

\* where the expression stands: printed, as an expression statement, or as
\* an operand of +
OperandContexts == {"print", "statement", "operand"}

\* `var m = 0; var n = 0; <a op b in its context> print m; print n;`
ShortCircuitProgram(a, op, b, ctx) ==
    <<"v", "a", "r", " ", "m", " ", "=", " ", "0", ";", " ", "v", "a", "r", " ", "n", " ", "=",
        " ", "0", ";", " ">>
    \o (CASE ctx = "print" -> <<"p", "r", "i", "n", "t", " ">> \o a.txt \o op \o b.txt \o <<";">>
          [] ctx = "statement" -> a.txt \o op \o b.txt \o <<";">>
          [] ctx = "operand" ->
               <<"p", "r", "i", "n", "t", " ", "(">> \o a.txt \o op \o b.txt \o <<")", " ", "+",
                   " ">> \o <<"\"", ">", "\"">>
               \o <<";">>)
    \o <<" ", "p", "r", "i", "n", "t", " ", "m", ";", " ", "p", "r", "i", "n", "t", " ", "n", ";">>

\* what the program prints when the expression yields r and b was executed
\* exactly when takes_b
ShortCircuitOutput(a, b, takes_b, ctx) ==
    (CASE ctx = "print" -> <<Display(IF takes_b THEN b.val ELSE a.val)>>
       [] ctx = "statement" -> <<>>
       [] ctx = "operand" ->
            <<Display(IF takes_b THEN b.val ELSE a.val) \o <<">">>>>)
    \o <<Display(IF takes_b THEN b.val ELSE ValueNumber(0, 1)), Display(a.n)>>

ElvisCases ==
    {[src |-> ShortCircuitProgram(a, <<" ", "?", ":", " ">>, b, ctx),
      out |-> ShortCircuitOutput(a, b, a.val = ValueNil, ctx)] :
        a \in LeftForms, b \in RightForms, ctx \in OperandContexts}

ElvisPrograms == {cs.src : cs \in ElvisCases}

\* one step of a program of ElvisPrograms: no instruction is executed twice,
\* and a run that ends has printed the value of a ?: b, then m and n
ElvisStep ==
    /\ (source \in ElvisPrograms /\ phase = "run" /\ phase' = "run") => vm'.ptr > vm.ptr
    /\ phase' = "done" =>
           \A cs \in ElvisCases :
               source' = cs.src =>
                   result' = "Ok" /\ vm'.out = cs.out /\ vm'.stack = <<>>

\* C9: `a ?: b` evaluates a once (n shows its one evaluation, and no
\* instruction of the program is executed twice), yields the value of a when
\* it is not nil, false included, without executing b (m stays 0), yields
\* the value of b when a is nil, and leaves exactly one value in its place
\* (the stack is empty when the program ends).
C9_ElvisYieldsFirstNonNil == [][ElvisStep]_vars

\* `print (n = false) ?: (m = 7);` printed false, then m = 0 and n = false
C9_Witness ==
    /\ phase = "done"
    /\ source = <<"v", "a", "r", " ", "m", " ", "=", " ", "0", ";", " ", "v", "a", "r", " ", "n",
        " ", "=", " ", "0", ";", " ", "p", "r", "i", "n", "t", " ", "(", "n", " ", "=", " ", "f",
        "a", "l", "s", "e", ")", " ", "?", ":", " ", "(", "m", " ", "=", " ", "7", ")", ";", " ",
        "p", "r", "i", "n", "t", " ", "m", ";", " ", "p", "r", "i", "n", "t", " ", "n", ";">>
    /\ source \in ElvisPrograms
    /\ result = "Ok"
    /\ vm.out = <<<<"f", "a", "l", "s", "e">>, <<"0">>, <<"f", "a", "l", "s", "e">>>>
    /\ vm.stack = <<>>

AndCases ==
    {[src |-> ShortCircuitProgram(a, <<" ", "a", "n", "d", " ">>, b, ctx),
      out |-> ShortCircuitOutput(a, b, is_truthy(a.val), ctx)] :
        a \in LeftForms, b \in RightForms, ctx \in OperandContexts}

OrCases ==
    {[src |-> ShortCircuitProgram(a, <<" ", "o", "r", " ">>, b, ctx),
      out |-> ShortCircuitOutput(a, b, ~is_truthy(a.val), ctx)] :
        a \in LeftForms, b \in RightForms, ctx \in OperandContexts}

AndOrPrograms == {cs.src : cs \in AndCases \cup OrCases}

\* C10: `a and b` yields a when a is falsy and otherwise b, `a or b` yields
\* a when a is truthy and otherwise b; b is executed exactly when its value
\* is the result (m), a is evaluated (n), and exactly one value is left in
\* place of the expression (the stack is empty when the program ends).
C10_AndOrShortCircuit ==
    phase = "done" =>
        \A cs \in AndCases \cup OrCases :
            source = cs.src => result = "Ok" /\ vm.out = cs.out /\ vm.stack = <<>>

\* `print "s" and (m = nil);` printed nil, then m = nil and n = 0
C10_Witness ==
    /\ phase = "done"
    /\ source = ShortCircuitProgram([txt |-> <<"\"", "s", "\"">>, val |-> ValueStr(<<"s">>),
                                     n |-> ValueNumber(0, 1)],
                                    <<" ", "a", "n", "d", " ">>,
                                    [txt |-> <<"(", "m", " ", "=", " ", "n", "i", "l",
                                        ")">>, val |-> ValueNil], "print")
    /\ source \in AndOrPrograms
    /\ result = "Ok"
    /\ vm.out = <<<<"n", "i", "l">>, <<"n", "i", "l">>, <<"0">>>>
    /\ vm.stack = <<>>

(***************************************************************************)
(* C11: if / else                                                          *)
(***************************************************************************)
\* the condition c: its text and whether the claim calls its value truthy
\* (nil and false are the only falsy values)
IfConditions ==
    {[txt |-> <<"n", "i", "l">>, truthy |-> FALSE],
     [txt |-> <<"f", "a", "l", "s", "e">>, truthy |-> FALSE],
     [txt |-> <<"t", "r", "u", "e">>, truthy |-> TRUE],
     [txt |-> <<"0">>, truthy |-> TRUE],
     [txt |-> <<"\"", "\"">>, truthy |-> TRUE],
     [txt |-> <<"\"", "s", "\"">>, truthy |-> TRUE],
     [txt |-> <<"1", " ", "<", " ", "0">>, truthy |-> FALSE],
     [txt |-> <<"0", " ", "-", " ", "0">>, truthy |-> TRUE]}

\* with or without the else part; at the top level (empty stack) or in a
\* block after a local x that is read after the if
IfForms == {"else", "plain", "local_else", "local_plain"}

IfProgram(c, form) ==
    (IF form \in {"local_else", "local_plain"} THEN <<"{", " ", "v", "a", "r", " ", "x", " ", "=",
        " ", "7", ";", " ">> ELSE <<>>)
    \o <<"i", "f", " ", "(">> \o c.txt \o <<")", " ", "p", "r", "i", "n", "t", " ">> \o <<"\"",
        "a", "\"">> \o <<";">>
    \o (IF form \in {"else", "local_else"}
        THEN <<" ", "e", "l", "s", "e", " ", "p", "r", "i", "n", "t", " ">> \o <<"\"", "b",
            "\"">> \o <<";">> ELSE <<>>)
    \o (IF form \in {"local_else", "local_plain"} THEN <<" ", "p", "r", "i", "n", "t", " ", "x",
        ";", " ", "}">>
        ELSE <<" ", "p", "r", "i", "n", "t", " ">> \o <<"\"", "e", "\"">> \o <<";">>)

IfOutput(c, form) ==
    (IF c.truthy THEN <<<<"a">>>>
     ELSE IF form \in {"else", "local_else"} THEN <<<<"b">>>> ELSE <<>>)
    \o (IF form \in {"local_else", "local_plain"} THEN <<<<"7">>>> ELSE <<<<"e">>>>)

IfCases ==
    {[src |-> IfProgram(c, form), out |-> IfOutput(c, form)] :
        c \in IfConditions, form \in IfForms}

IfPrograms == {cs.src : cs \in IfCases}

\* C11: `if (c) s1 else s2` runs s1 alone when c is truthy and s2 alone (or
\* nothing, without else) when c is nil or false; 0 and "" select s1.  The
\* condition value is popped on both paths: the statement after the if finds
\* the stack as it was (the local x is still the top slot) and the run ends
\* with an empty stack.
C11_IfRunsExactlyOneBranch ==
    phase = "done" =>
        \A cs \in IfCases :
            source = cs.src => result = "Ok" /\ vm.out = cs.out /\ vm.stack = <<>>

\* `if (0) print "a"; else print "b"; print "e";` has printed a, then e
C11_Witness ==
    /\ phase = "done"
    /\ source = IfProgram([txt |-> <<"0">>, truthy |-> TRUE], "else")
    /\ source \in IfPrograms
    /\ result = "Ok"
    /\ vm.out = <<<<"a">>, <<"e">>>>
    /\ vm.stack = <<>>

(***************************************************************************)
(* C12: while                                                              *)
(***************************************************************************)
\* the largest number of iterations of the loops of the test programs
MaxLoop == 3

\* the lines `0`, `1`, ..., `k - 1` that `print i` writes in k iterations
RECURSIVE CountOutput(_)
CountOutput(k) ==
    IF k = 0 THEN <<>> ELSE Append(CountOutput(k - 1), ShowNumber(k - 1))

\* "plain" is the loop of the design's example with the bound k; "counted"
\* counts the evaluations of the condition in n; "falsy" stops on nil and
\* starts on the truthy number 0 (at least one iteration); "local" stands in
\* a block after a local x that is read after the loop
WhileForms == {"plain", "counted", "falsy", "local"}

WhileProgram(form, k) ==
    LET bound == NatDigits(k)
    IN CASE form = "plain" ->
              <<"v", "a", "r", " ", "i", " ", "=", " ", "0", ";", " ", "w", "h", "i", "l", "e",
                  " ", "(", "i", " ", "<", " ">> \o bound \o <<")", " ", "{", " ", "p", "r", "i",
                  "n", "t", " ", "i", ";", " ", "i", " ", "=", " ", "i", " ", "+", " ", "1", ";",
                  " ", "}">>
         [] form = "counted" ->
              <<"v", "a", "r", " ", "i", " ", "=", " ", "0", ";", " ", "v", "a", "r", " ", "n",
                  " ", "=", " ", "0", ";", " ", "w", "h", "i", "l", "e", " ", "(", "(", "n", " ",
                  "=", " ", "n", " ", "+", " ", "1", ")", " ", "*", " ", "0", " ", "+", " ", "i",
                  " ", "<", " ">> \o bound
              \o <<")", " ", "{", " ", "p", "r", "i", "n", "t", " ", "i", ";", " ", "i", " ", "=",
                  " ", "i", " ", "+", " ", "1", ";", " ", "}", " ", "p", "r", "i", "n", "t", " ",
                  "n", ";">>
         [] form = "falsy" ->
              <<"v", "a", "r", " ", "c", " ", "=", " ", "0", ";", " ", "v", "a", "r", " ", "i",
                  " ", "=", " ", "0", ";", " ", "w", "h", "i", "l", "e", " ", "(", "c", ")", " ",
                  "{", " ", "p", "r", "i", "n", "t", " ", "i", ";", " ", "i", " ", "=", " ", "i",
                  " ", "+", " ", "1", ";", " ", "c", " ", "=", " ", "i", " ", "<", " ">> \o bound
              \o <<" ", "o", "r", " ", "n", "i", "l", ";", " ", "}">>
         [] form = "local" ->
              <<"{", " ", "v", "a", "r", " ", "x", " ", "=", " ", "7", ";", " ", "v", "a", "r",
                  " ", "i", " ", "=", " ", "0", ";", " ", "w", "h", "i", "l", "e", " ", "(", "i",
                  " ", "<", " ">> \o bound
              \o <<")", " ", "{", " ", "p", "r", "i", "n", "t", " ", "i", ";", " ", "i", " ", "=",
                  " ", "i", " ", "+", " ", "1", ";", " ", "}", " ", "p", "r", "i", "n", "t", " ",
                  "x", ";", " ", "}">>

WhileOutput(form, k) ==
    CASE form = "plain" -> CountOutput(k)
      [] form = "counted" -> Append(CountOutput(k), ShowNumber(k + 1))
      [] form = "falsy" -> CountOutput(IF k = 0 THEN 1 ELSE k)
      [] form = "local" -> Append(CountOutput(k), <<"7">>)

WhileCases ==
    {[src |-> WhileProgram(form, k), out |-> WhileOutput(form, k)] :
        form \in WhileForms, k \in 0..MaxLoop}

WhilePrograms == {cs.src : cs \in WhileCases}

\* the run of a while program has ended as the claim says
WhileDone ==
    /\ phase = "done"
    /\ \A cs \in WhileCases :
           source = cs.src => result = "Ok" /\ vm.out = cs.out /\ vm.stack = <<>>

\* the runs of the while programs; the loop of VM::interpret runs on until it
\* returns
InitWhile == \E src \in WhilePrograms : Start(src)

SpecWhile == InitWhile /\ [][Next]_vars /\ WF_vars(Interpret)

\* C12 (under SpecWhile): a while program compiles, and once the VM has
\* started its run terminates; s has run once for each truthy value of c and
\* not after the first falsy one (nil or false), c was evaluated once more
\* than s ran, and at the exit the stack has the height it had at the entry
\* (the local below the loop is read back, the stack is empty at the end).
\* `var i = 0; while (i < 3) { print i; i = i + 1; }` prints 0, 1, 2 and
\* terminates.
C12_WhileRunsWhileTruthy ==
    /\ [](phase = "done" /\ source \in WhilePrograms => WhileDone)
    /\ ((phase = "run" /\ source \in WhilePrograms) ~> WhileDone)

\* the design's example has printed 0, 1, 2 and stopped
C12_Witness ==
    /\ phase = "done"
    /\ source = <<"v", "a", "r", " ", "i", " ", "=", " ", "0", ";", " ", "w", "h", "i", "l", "e",
        " ", "(", "i", " ", "<", " ", "3", ")", " ", "{", " ", "p", "r", "i", "n", "t", " ", "i",
        ";", " ", "i", " ", "=", " ", "i", " ", "+", " ", "1", ";", " ", "}">>
    /\ source \in WhilePrograms
    /\ result = "Ok"
    /\ vm.out = <<<<"0">>, <<"1">>, <<"2">>>>
    /\ vm.stack = <<>>

(***************************************************************************)
(* C13: for                                                                *)
(***************************************************************************)
\* the parts of the traced loop: each appends its letter to the global t
\* (init i, condition c, body s, post p), the body counts its executions in k
ForInit == <<"t", " ", "=", " ", "t", " ", "+", " ">> \o <<"\"", "i", "\"">> \o <<";">>

ForCond(k) ==
    <<"(", "t", " ", "=", " ", "t", " ", "+", " ">> \o <<"\"", "c", "\"">> \o <<")", " ", "=",
        "=", " ">> \o <<"\"", "\"">> \o <<" ", "o", "r", " ", "k", " ", "<", " ">>
    \o NatDigits(k) \o <<";">>

ForPost == <<"t", " ", "=", " ", "t", " ", "+", " ">> \o <<"\"", "p", "\"">>

ForBody == <<"{", " ", "t", " ", "=", " ", "t", " ", "+", " ">> \o <<"\"", "s", "\"">> \o <<";",
    " ", "k", " ", "=", " ", "k", " ", "+", " ", "1", ";", " ", "}">>

\* "full" has the three clauses; "no_init" and "no_post" leave one out;
\* "no_cond" has no condition and leaves the loop by a runtime error in the
\* body once k has reached the bound;
\* "local" declares the loop variable in a block after a local x; "bare" is
\* `for (;;) print -nil;`
ForForms == {"full", "no_init", "no_post", "no_cond", "local", "bare"}

ForProgram(form, k) ==
    LET head == <<"v", "a", "r", " ", "k", " ", "=", " ", "0", ";", " ", "v", "a", "r", " ", "t",
        " ", "=", " ">> \o <<"\"", "\"">> \o <<";", " ">>
    IN CASE form = "full" ->
              head \o <<"f", "o", "r", " ",
                  "(">> \o ForInit \o <<" ">> \o ForCond(k) \o <<" ">> \o ForPost
              \o <<")", " ">> \o ForBody \o <<" ", "p", "r", "i", "n", "t", " ", "t", ";">>
         [] form = "no_init" ->
              head \o <<"f", "o", "r", " ", "(", ";",
                  " ">> \o ForCond(k) \o <<" ">> \o ForPost \o <<")", " ">> \o ForBody
              \o <<" ", "p", "r", "i", "n", "t", " ", "t", ";">>
         [] form = "no_post" ->
              head \o <<"f", "o", "r", " ", "(">> \o ForInit \o <<" ">> \o ForCond(k) \o <<")",
                  " ">> \o ForBody
              \o <<" ", "p", "r", "i", "n", "t", " ", "t", ";">>
         [] form = "no_cond" ->
              head \o <<"f", "o", "r", " ", "(">> \o ForInit \o <<" ", ";",
                  " ">> \o ForPost \o <<")", " ", "{", " ", "i", "f", " ", "(", "k", " ", "=",
                  "=", " ">>
              \o NatDigits(k) \o <<")", " ", "{", " ", "p", "r", "i", "n", "t", " ", "t", ";",
                  " ", "p", "r", "i", "n", "t", " ", "-", "t", ";", " ", "}",
                  " ">> \o ForBody \o <<" ", "}">>
         [] form = "local" ->
              <<"{", " ", "v", "a", "r", " ", "x", " ", "=", " ", "7", ";", " ", "f", "o", "r",
                  " ", "(", "v", "a", "r", " ", "j", " ", "=", " ", "0", ";", " ", "j", " ", "<",
                  " ">> \o NatDigits(k)
              \o <<";", " ", "j", " ", "=", " ", "j", " ", "+", " ", "1", ")", " ", "p", "r", "i",
                  "n", "t", " ", "j", ";", " ", "p", "r", "i", "n", "t", " ", "x", ";", " ", "p",
                  "r", "i", "n", "t", " ", "j", ";", " ", "}">>
         [] form = "bare" -> <<"f", "o", "r", " ", "(", ";", ";", ")", " ", "p", "r", "i", "n",
             "t", " ", "-", "n", "i", "l", ";">>

\* the trace of k rounds, each round being the letters of round
RECURSIVE ForRounds(_, _)
ForRounds(k, round) == IF k = 0 THEN <<>> ELSE round \o ForRounds(k - 1, round)

ForOutput(form, k) ==
    CASE form = "full" -> <<<<"i">> \o ForRounds(k, <<"c", "s", "p">>) \o <<"c">>>>
      [] form = "no_init" -> <<ForRounds(k, <<"c", "s", "p">>) \o <<"c">>>>
      [] form = "no_post" -> <<<<"i">> \o ForRounds(k, <<"c", "s">>) \o <<"c">>>>
      [] form = "no_cond" -> <<<<"i">> \o ForRounds(k, <<"s", "p">>)>>
      [] form = "local" -> CountOutput(k) \o <<<<"7">>, ShowNumber(k)>>
      [] form = "bare" -> <<>>

\* no_cond and bare leave the loop by the runtime error of the body
ForResult(form) == IF form \in {"no_cond", "bare"} THEN "Runtime" ELSE "Ok"

ForCases ==
    {[src |-> ForProgram(form, k), out |-> ForOutput(form, k), res |-> ForResult(form)] :
        form \in ForForms, k \in 0..MaxLoop}

ForPrograms == {cs.src : cs \in ForCases}

\* the opcodes of the chunk from ptr on, in order
RECURSIVE EmittedSeq(_, _)
EmittedSeq(k, ptr) ==
    IF ChunkIterator_next(k, ptr).kind # "some" THEN <<>>
    ELSE <<ChunkIterator_next(k, ptr).bc.op>>
             \o EmittedSeq(k, ChunkIterator_next(k, ptr).ptr)

\* the code of `for (;;) print -nil;`: True for the missing condition and
\* nothing for the missing init and post
BareForCode ==
    <<"True", "JumpF", "JumpRelative", "JumpRelative", "Pop", "Nil", "Negate", "Print",
      "JumpRelative", "Pop", "Return">>

\* C13: init runs once, then condition, body, post repeat in this order
\* until the condition is falsy; a missing condition never stops the loop; a
\* missing init or post leaves no trace and no code; after the loop the
\* stack holds what init left (the locals x and j are read back) and is
\* empty at the end of the program.
C13_ForRunsInitCondBodyPost ==
    phase = "done" =>
        \A cs \in ForCases :
            source = cs.src =>
                /\ result = cs.res
                /\ vm.out = cs.out
                /\ vm.stack = <<>>
                /\ source = ForProgram("bare", 0) =>
                       EmittedSeq(comp.chunk, 0) = BareForCode

\* the full loop with two rounds has printed icspcspc
C13_Witness ==
    /\ phase = "done"
    /\ source = ForProgram("full", 2)
    /\ source \in ForPrograms
    /\ result = "Ok"
    /\ vm.out = <<<<"i", "c", "s", "p", "c", "s", "p", "c">>>>
    /\ vm.stack = <<>>

(***************************************************************************)
(* C14: the stack at the end of a run                                      *)
(***************************************************************************)
\* programs whose for statement declares its loop variable in a block and
\* is itself the body of a while or of an if, so that its init runs twice or
\* not at all; programs that stop on a runtime error; balanced programs
BalancePrograms ==
    {<<"v", "a", "r", " ", "k", " ", "=", " ", "0", ";", " ", "{", " ", "w", "h", "i", "l", "e",
        " ", "(", "k", " ", "<", " ", "2", ")", " ", "f", "o", "r", " ", "(", "v", "a", "r", " ",
        "i", " ", "=", " ", "0", ";", " ", "(", "k", " ", "=", " ", "k", " ", "+", " ", "1", ")",
        " ", "<", " ", "0", ";", " ", ")", " ", "p", "r", "i", "n", "t", " ", "i", ";", " ", "}">>,
     <<"{", " ", "i", "f", " ", "(", "f", "a", "l", "s", "e", ")", " ", "f", "o", "r", " ", "(",
         "v", "a", "r", " ", "i", " ", "=", " ", "0", ";", " ", "f", "a", "l", "s", "e", ";", " ",
         ")", " ", "p", "r", "i", "n", "t", " ", "i", ";", " ", "}">>,
     <<"{", " ", "i", "f", " ", "(", "t", "r", "u", "e", ")", " ", "f", "o", "r", " ", "(", "v",
         "a", "r", " ", "i", " ", "=", " ", "0", ";", " ", "f", "a", "l", "s", "e", ";", " ", ")",
         " ", "p", "r", "i", "n", "t", " ", "i", ";", " ", "}">>,
     <<"p", "r", "i", "n", "t", " ", "-", "n", "i", "l", ";">>,
     <<"p", "r", "i", "n", "t", " ", "1", " ", "+", " ", "-", "n", "i", "l", ";">>,
     <<"v", "a", "r", " ", "a", " ", "=", " ", "1", ";", " ", "{", " ", "v", "a", "r", " ", "b",
         " ", "=", " ", "a", ";", " ", "p", "r", "i", "n", "t", " ", "b", ";", " ", "}", " ", "a",
         " ", "=", " ", "2", ";", " ", "p", "r", "i", "n", "t", " ", "a", ";">>}

\* C14: a run of a compiled program ends with an empty stack if and only if
\* it reached Return (or the end of the code): every statement leaves the
\* stack as it found it, and a run that stops on a runtime error leaves
\* something on the stack.
C14_StackEmptyIffReturned ==
    phase = "done" /\ result \in {"Ok", "Runtime"} =>
        (vm.stack = <<>> <=> result = "Ok")

(***************************************************************************)
(* Chunks given to VM::interpret directly                                  *)
(***************************************************************************)
\* an instruction pushed with its line
Instr(op, arg, line) == [op |-> op, arg |-> arg, line |-> line]

\* the chunk after Chunk::push of the instructions i.. of instrs
RECURSIVE PushAll(_, _, _)
PushAll(k, instrs, i) ==
    IF i > Len(instrs) THEN k
    ELSE PushAll(Chunk_push(k, BC(instrs[i].op, instrs[i].arg), instrs[i].line), instrs,
                 i + 1)

\* a chunk with the constant pool consts, globals global slots and the code
\* instrs
BuildChunk(instrs, consts, globals) ==
    PushAll([Chunk_default EXCEPT !.constants = consts, !.global_slots = globals],
            instrs, 1)

\* the offset of instruction i of instrs (0-based, as in the chunk)
RECURSIVE OffsetOf(_, _)
OffsetOf(instrs, i) ==
    IF i <= 1 THEN 0
    ELSE OffsetOf(instrs, i - 1) + Len(Encode(BC(instrs[i - 1].op, instrs[i - 1].arg)))

\* VM::interpret is entered with the chunk k
StartChunk(k) ==
    /\ source = <<>>
    /\ phase = "run"
    /\ comp = [Compiler_new(<<>>) EXCEPT !.chunk = k]
    /\ vm = VM_new(k)
    /\ result = "none"

(***************************************************************************)
(* C15: out-of-range slots and short stacks                                *)
(***************************************************************************)
\* the largest slot, local index and stack height of the test chunks
MaxSlot == 2

\* the instructions under test
ShortOps ==
    {BC(op, s) : op \in {"SetGlobal", "GetGlobal", "SetLocal", "GetLocal"}, s \in 0..MaxSlot}
        \cup {BC(op, 0) : op \in {"Pop", "Negate", "Not", "Print", "Add", "Eq", "Lt"}}

\* the stack height the instruction needs
NeedsStack(bc) ==
    CASE bc.op = "GetGlobal" -> 0
      [] bc.op = "GetLocal" -> bc.arg + 1
      [] bc.op = "SetLocal" -> bc.arg + 1
      [] bc.op \in {"Add", "Eq", "Lt"} -> 2
      [] OTHER -> 1

\* `height` times Nil on line 1, the instruction on line 2, Return on line 3
RECURSIVE NilPushes(_)
NilPushes(height) ==
    IF height = 0 THEN <<>> ELSE Append(NilPushes(height - 1), Instr("Nil", 0, 1))

ShortCode(bc, height) ==
    NilPushes(height) \o <<Instr(bc.op, bc.arg, 2), Instr("Return", 0, 3)>>

\* the cases of the claim: a global slot >= globals_count, or a stack too
\* short for the instruction
ShortCases ==
    {cs \in [bc : ShortOps, height : 0..MaxSlot, globals : 0..MaxSlot] :
        \/ cs.bc.op \in {"SetGlobal", "GetGlobal"} /\ cs.bc.arg >= cs.globals
        \/ cs.height < NeedsStack(cs.bc)}

ShortChunk(cs) == BuildChunk(ShortCode(cs.bc, cs.height), <<>>, cs.globals)

ShortChunks == {ShortChunk(cs) : cs \in ShortCases}

\* C15: in each of these cases VM::interpret returns the Runtime error (it
\* does not crash), and the error reported names the line and the opcode of
\* the instruction.
C15_ShortStackIsRuntimeError ==
    phase = "done" =>
        \A cs \in ShortCases :
            comp.chunk = ShortChunk(cs) =>
                /\ result = "Runtime"
                /\ vm.report = [line |-> 2, op |-> cs.bc.op]

(***************************************************************************)
(* C16: operand type checks                                                *)
(***************************************************************************)
\* the operands: nil, true, the numbers 0, 2, -3 and 1/2, the strings "ab"
\* and ""
OperandValues ==
    {ValueNil, ValueBool(TRUE), ValueNumber(0, 1), ValueNumber(2, 1), ValueNumber(-3, 1),
     ValueNumber(1, 2), ValueStr(<<"a", "b">>), ValueStr(<<>>)}

BinaryOpcodes == {"Add", "Sub", "Mul", "Div", "Gt", "Lt"}

\* a constant per operand on line 1, the instruction on line 2, Print on
\* line 3
TypedCode(op) ==
    IF op = "Negate"
    THEN <<Instr("Constant", 0, 1), Instr("Negate", 0, 2), Instr("Print", 0, 3),
           Instr("Return", 0, 3)>>
    ELSE <<Instr("Constant", 0, 1), Instr("Constant", 1, 1), Instr(op, 0, 2),
           Instr("Print", 0, 3), Instr("Return", 0, 3)>>

TypedCases ==
    {[op |-> op, l |-> l, r |-> r] : op \in BinaryOpcodes, l \in OperandValues,
                                     r \in OperandValues}
        \cup {[op |-> "Negate", l |-> l, r |-> l] : l \in OperandValues}

TypedChunk(cs) ==
    BuildChunk(TypedCode(cs.op), IF cs.op = "Negate" THEN <<cs.l>> ELSE <<cs.l, cs.r>>, 0)

TypedChunks == {TypedChunk(cs) : cs \in TypedCases}

\* the operands for which the claim says the instruction succeeds
TypedOk(cs) ==
    LET numbers == cs.l.t = "Number" /\ cs.r.t = "Number"
    IN CASE cs.op = "Add" -> numbers \/ cs.l.t = "Str" \/ cs.r.t = "Str"
         [] cs.op = "Mul" -> numbers \/ (cs.l.t = "Str" /\ cs.r.t = "Number" /\ cs.r.d = 1)
         [] OTHER -> numbers

\* what Print then writes: the f64 result, the Bool of a comparison, the
\* concatenation of the display forms, or the repetition of the string
TypedOutput(cs) ==
    LET numbers == cs.l.t = "Number" /\ cs.r.t = "Number"
    IN CASE cs.op = "Negate" -> Display(NumNeg(cs.l))
         [] cs.op = "Gt" -> Display(ValueBool(NumGt(cs.l, cs.r)))
         [] cs.op = "Lt" -> Display(ValueBool(NumLt(cs.l, cs.r)))
         [] cs.op = "Sub" -> Display(NumSub(cs.l, cs.r))
         [] cs.op = "Div" -> Display(NumDiv(cs.l, cs.r))
         [] cs.op = "Add" /\ numbers -> Display(NumAdd(cs.l, cs.r))
         [] cs.op = "Add" -> Display(cs.l) \o Display(cs.r)
         [] cs.op = "Mul" /\ numbers -> Display(NumMul(cs.l, cs.r))
         [] cs.op = "Mul" -> Repeat(cs.l.s, cs.r.n)

\* C16: Negate, Gt, Lt, Sub and Div succeed on Numbers only; Add succeeds on
\* two Numbers or when one operand is a Str (the display forms, left then
\* right); Mul succeeds on two Numbers or on a Str and a Number without
\* fraction.  Every other combination is the Runtime error of this
\* instruction, and nothing runs after it: the decoder stands just behind
\* the instruction and Print has written nothing.
C16_OperandTypeChecks ==
    phase = "done" =>
        \A cs \in TypedCases :
            comp.chunk = TypedChunk(cs) =>
                IF TypedOk(cs)
                THEN result = "Ok" /\ vm.out = <<TypedOutput(cs)>>
                ELSE /\ result = "Runtime"
                     /\ vm.report.op = cs.op
                     /\ vm.out = <<>>
                     /\ vm.ptr = OffsetOf(TypedCode(cs.op), Len(TypedCode(cs.op)) - 1)

\* "ab" * 1/2 has stopped on the Runtime error of Mul
C16_Witness ==
    /\ phase = "done"
    /\ comp.chunk = TypedChunk([op |-> "Mul", l |-> ValueStr(<<"a",
        "b">>), r |-> ValueNumber(1, 2)])
    /\ comp.chunk \in TypedChunks
    /\ result = "Runtime"
    /\ vm.report.op = "Mul"
    /\ vm.out = <<>>

(***************************************************************************)
(* C17: stray characters                                                   *)
(***************************************************************************)
\* characters that start no token
StrayChars == {"@", "#", "~"}

\* where the stray character stands in `print 1; print 2;`
StrayPlaces == {"first", "operand", "before_semi", "between", "last"}

StrayProgram(ch, place) ==
    CASE place = "first" -> <<ch>> \o <<" ", "p", "r", "i", "n", "t", " ", "1", ";", " ", "p",
        "r", "i", "n", "t", " ", "2", ";">>
      [] place = "operand" -> <<"p", "r", "i", "n", "t", " ">> \o <<ch>> \o <<"1", ";", " ", "p",
          "r", "i", "n", "t", " ", "2", ";">>
      [] place = "before_semi" -> <<"p", "r", "i", "n", "t", " ", "1", " ">> \o <<ch>> \o <<";",
          " ", "p", "r", "i", "n", "t", " ", "2", ";">>
      [] place = "between" -> <<"p", "r", "i", "n", "t", " ", "1", ";", " ">> \o <<ch>> \o <<" ",
          "p", "r", "i", "n", "t", " ", "2", ";">>
      [] place = "last" -> <<"p", "r", "i", "n", "t", " ", "1", ";", " ", "p", "r", "i", "n", "t",
          " ", "2", ";", " ">> \o <<ch>>

StrayPrograms == {StrayProgram(ch, place) : ch \in StrayChars, place \in StrayPlaces}

\* C17: the scanner turns the stray character into an Error token, and the
\* run fails on it: the pipeline returns Compiler and the VM executes
\* nothing.
C17_StrayCharacterIsFatal ==
    source \in StrayPrograms =>
        /\ \E i \in 1..Len(Tokens(source)) : Tokens(source)[i].ttype = "Error"
        /\ phase # "run"
        /\ vm.out = <<>>
        /\ phase = "done" => result = "Compiler"

(***************************************************************************)
(* C18: unterminated strings                                               *)
(***************************************************************************)
\* sources that end inside a string literal: no closing quote and no `${`
\* after the last opening of a string part
UnterminatedPrograms ==
    {<<"\"">>,
     <<"p", "r", "i", "n", "t", " ">> \o <<"\"">> \o <<"a", "b", "c">>,
     <<"p", "r", "i", "n", "t", " ", "1", ";", " ">> \o <<"\"">> \o <<"a", "b", "c">>,
     <<"v", "a", "r", " ", "s", " ", "=", " ">> \o <<"\"">> \o <<"a", "$">>,
     <<"p", "r", "i", "n", "t", " ">> \o <<"\"">> \o <<"a", "$", "{", "1", "}", "b", "c">>,
     <<"p", "r", "i", "n", "t", " ">> \o <<"\"">> \o <<"a">> \o <<"\"">> \o <<" ", "+",
         " ">> \o <<"\"">> \o <<"b", ";">>}

\* the last token the scanner makes of the source
LastToken(src) == Tokens(src)[Len(Tokens(src))]

\* C18: the scanner makes an Error token of the unterminated literal, and
\* the pipeline returns the Compiler error.
C18_UnterminatedStringIsErrorToken ==
    source \in UnterminatedPrograms =>
        /\ LastToken(source).ttype = "Error"
        /\ phase # "run"
        /\ phase = "done" => result = "Compiler"

(***************************************************************************)
(* C19: the operator !=                                                    *)
(***************************************************************************)
\* operands of != : a literal's text and its value
NotEqualOperands ==
    {[txt |-> <<"n", "i", "l">>, val |-> ValueNil],
     [txt |-> <<"t", "r", "u", "e">>, val |-> ValueBool(TRUE)],
     [txt |-> <<"1">>, val |-> ValueNumber(1, 1)],
     [txt |-> <<"2">>, val |-> ValueNumber(2, 1)],
     [txt |-> <<"\"", "s", "\"">>, val |-> ValueStr(<<"s">>)]}

\* `print a != b;`
NotEqualProgram(a, b) == <<"p", "r", "i", "n", "t", " ">> \o a.txt \o <<" ", "!", "=",
    " ">> \o b.txt \o <<";">>

NotEqualCases ==
    {[src |-> NotEqualProgram(a, b),
      out |-> <<Display(ValueBool(~ValueEq(a.val, b.val)))>>] :
        a \in NotEqualOperands, b \in NotEqualOperands}

NotEqualPrograms == {cs.src : cs \in NotEqualCases}

\* C19: `print a != b;` compiles, runs to Ok and prints the negation of
\* a == b, for every pair of operand values.
C19_NotEqualNegatesEqual ==
    phase = "done" =>
        \A cs \in NotEqualCases :
            source = cs.src => result = "Ok" /\ vm.out = cs.out /\ vm.stack = <<>>

(***************************************************************************)
(* C20: the line map                                                       *)
(***************************************************************************)
\* the largest line number of the test chunks
MaxLine == 2

\* the lines of the four instructions of the test chunk
LineCases == [1..4 -> 1..MaxLine]

\* Nil; SetGlobal 0; Negate; Return, pushed with the lines ls
LineCode(ls) ==
    <<Instr("Nil", 0, ls[1]), Instr("SetGlobal", 0, ls[2]), Instr("Negate", 0, ls[3]),
      Instr("Return", 0, ls[4])>>

LineChunk(ls) == BuildChunk(LineCode(ls), <<>>, 1)

LineChunks == {LineChunk(ls) : ls \in LineCases}

\* the byte positions of instruction i of instrs: its opcode and its operands
PositionsOf(instrs, i) ==
    OffsetOf(instrs, i) ..
        (OffsetOf(instrs, i) + Len(Encode(BC(instrs[i].op, instrs[i].arg))) - 1)

\* C20: get_line returns, for the opcode position and every operand position
\* of an instruction, the line the instruction was pushed with; the Runtime
\* error of Negate on nil is reported with the line of the Negate.
C20_GetLineReturnsPushedLine ==
    \A ls \in LineCases :
        comp.chunk = LineChunk(ls) =>
            /\ \A i \in 1..4 :
                   \A p \in PositionsOf(LineCode(ls), i) : get_line(comp.chunk, p) = ls[i]
            /\ phase = "done" => result = "Runtime" /\ vm.report.line = ls[3]

(***************************************************************************)
(* C21: the slots of GlobalBindings                                        *)
(***************************************************************************)
\* the names given to use_binding and declare_binding; ab sorts between a
\* and b
BindingNames == {<<"a">>, <<"a", "b">>, <<"b">>, <<"c">>}

\* a compiler whose GlobalBindings is the default one
StartBindings ==
    /\ source = <<>>
    /\ phase = "bind"
    /\ comp = Compiler_new(<<>>)
    /\ vm = VM_new(Chunk_default)
    /\ result = "none"

\* a call of GlobalBindings::use_binding
UseBinding ==
    /\ phase = "bind"
    /\ \E name \in BindingNames :
           comp' = [comp EXCEPT !.global_bindings = use_binding(@, name).g]
    /\ UNCHANGED <<source, phase, vm, result>>

\* a call of GlobalBindings::declare_binding
DeclareBinding ==
    /\ phase = "bind"
    /\ \E name \in BindingNames :
           comp' = [comp EXCEPT !.global_bindings = declare_binding(@, name).g]
    /\ UNCHANGED <<source, phase, vm, result>>

SpecBindings == StartBindings /\ [][UseBinding \/ DeclareBinding]_vars

\* the slots given to the names of the map
AssignedSlots(g) == {g.global_slots[name] : name \in DOMAIN g.global_slots}

\* C21: the names of the map have distinct slots, and the slots are
\* 0 .. n-1 for the n names of the map.
C21_SlotsAreDenseAndDistinct ==
    phase = "bind" =>
        /\ \A x, y \in DOMAIN comp.global_bindings.global_slots :
               x # y => comp.global_bindings.global_slots[x]
                            # comp.global_bindings.global_slots[y]
        /\ AssignedSlots(comp.global_bindings)
               = 0..(Cardinality(DOMAIN comp.global_bindings.global_slots) - 1)

(***************************************************************************)
(* The instructions of a chunk                                             *)
(***************************************************************************)
\* the instructions the iterator finds in at most n steps from ptr on: their
\* offsets and the pointer after the last of them
MergeSpans(a, b) == [starts |-> a.starts \cup b.starts, ptr |-> b.ptr]

RECURSIVE DecodeSpan(_, _, _)
ThenSpan(a, k, n) == MergeSpans(a, DecodeSpan(k, a.ptr, n))

DecodeSpan(k, ptr, n) ==
    IF n = 0 THEN [starts |-> {}, ptr |-> ptr]
    ELSE IF n = 1
    THEN IF ChunkIterator_next(k, ptr).kind = "some"
         THEN [starts |-> {ptr}, ptr |-> ChunkIterator_next(k, ptr).ptr]
         ELSE [starts |-> {}, ptr |-> ptr]
    ELSE ThenSpan(DecodeSpan(k, ptr, n \div 2), k, n - (n \div 2))

\* the offsets at which the iterator finds an instruction, from offset 0 on
InstructionStarts(k) == DecodeSpan(k, 0, Len(k.bytecode)).starts

(***************************************************************************)
(* C22: the slots of the emitted GetGlobal and SetGlobal                   *)
(***************************************************************************)
\* the orders in which the names of BindingNames can be declared
DeclareOrders == {o \in [1..4 -> BindingNames] : \A i, j \in 1..4 : o[i] = o[j] => i = j}

\* `var <o1> = 1; ... var <o4> = 4; c = a; print a; print ab; print b; print c;`
GlobalProgram(o) ==
    <<"v", "a", "r", " ">> \o o[1] \o <<" ", "=", " ", "1", ";", " ", "v", "a", "r",
        " ">> \o o[2] \o <<" ", "=", " ", "2", ";", " ", "v", "a", "r", " ">> \o o[3]
    \o <<" ", "=", " ", "3", ";", " ", "v", "a", "r", " ">> \o o[4] \o <<" ", "=", " ", "4", ";",
        " ", "c", " ", "=", " ", "a", ";", " ", "p", "r", "i", "n", "t", " ", "a", ";", " ", "p",
        "r", "i", "n", "t", " ", "a", "b", ";", " ", "p", "r", "i", "n", "t", " ", "b", ";", " ",
        "p", "r", "i", "n", "t", " ", "c", ";">>

GlobalPrograms == {GlobalProgram(o) : o \in DeclareOrders}

\* the slots of the GetGlobal and SetGlobal instructions at starts
GlobalSlotsAt(k, starts) ==
    {ChunkIterator_next(k, o).bc.arg :
        o \in {p \in starts : ChunkIterator_next(k, p).bc.op \in {"GetGlobal", "SetGlobal"}}}

\* the slots of the GetGlobal and SetGlobal instructions of the chunk
GlobalSlotsOf(k) == GlobalSlotsAt(k, InstructionStarts(k))

\* C22: when the VM runs the chunk of a program that compiled, its globals
\* vector has global_slots entries, and every slot of a GetGlobal or
\* SetGlobal of the chunk is below global_slots (the chunk does not change
\* during the run, so its code is inspected when the run starts).
C22_GlobalSlotsInRange ==
    phase = "run" =>
        /\ comp.err = "ok"
        /\ Len(vm.globals) = comp.chunk.global_slots
        /\ vm.ptr = 0 => \A s \in GlobalSlotsOf(comp.chunk) : s < comp.chunk.global_slots

\* the four names declared in the order c, b, ab, a: the code uses the slots
\* 0 and 1 of four
C22_Witness ==
    /\ phase = "done"
    /\ result = "Ok"
    /\ source = GlobalProgram(<<<<"c">>, <<"b">>, <<"a", "b">>, <<"a">>>>)
    /\ source \in GlobalPrograms
    /\ comp.chunk.global_slots = 4
    /\ GlobalSlotsOf(comp.chunk) = {0, 1}

(***************************************************************************)
(* C23: the operators >= and <=                                            *)
(***************************************************************************)
\* the operands of the comparisons
CompareNumbers == {0, 2, 3, 10}

\* `print a >= b;` and `print a <= b;`
CompareProgram(a, op, b) ==
    <<"p", "r", "i", "n", "t",
        " ">> \o NatDigits(a) \o <<" ">> \o op \o <<" ">> \o NatDigits(b) \o <<";">>

CompareCases ==
    {[src |-> CompareProgram(a, <<">", "=">>, b), out |-> <<Display(ValueBool(a >= b))>>] :
        a \in CompareNumbers, b \in CompareNumbers}
        \cup
    {[src |-> CompareProgram(a, <<"<", "=">>, b), out |-> <<Display(ValueBool(a <= b))>>] :
        a \in CompareNumbers, b \in CompareNumbers}

ComparePrograms == {cs.src : cs \in CompareCases}

\* C23: `print a >= b;` prints true exactly when a is greater than or equal
\* to b, and `print a <= b;` prints true exactly when a is less than or
\* equal to b.
C23_GreaterEqualLessEqual ==
    phase = "done" =>
        \A cs \in CompareCases :
            source = cs.src => result = "Ok" /\ vm.out = cs.out /\ vm.stack = <<>>

(***************************************************************************)
(* C24: the brace contexts of the scanner                                  *)
(***************************************************************************)
\* a token reduced to its kind and its text
Tok(ttype, lexeme) == <<ttype, lexeme>>

TokenTexts(toks) == [i \in 1..Len(toks) |-> Tok(toks[i].ttype, toks[i].lexeme)]

\* sources with blocks, interpolations and braces nested in one another,
\* each with the tokens its braces stand for
BraceCases ==
    {[src |-> <<"{", " ", "p", "r", "i", "n", "t", " ", "\"", "a", "$", "{", "1", "}", "b", "\"",
        ";", " ", "}">>,
      toks |-> <<Tok("LBrace", <<"{">>),
               Tok("Print", <<"p", "r", "i", "n", "t">>),
               Tok("StrInterp", <<"a">>),
               Tok("Number", <<"1">>),
               Tok("RBrace", <<"}">>),
               Tok("Str", <<"b">>),
               Tok("Semi", <<";">>),
               Tok("RBrace", <<"}">>)>>],
     [src |-> <<"p", "r", "i", "n", "t", " ", "\"", "a", "$", "{", "\"", "x", "$", "{", "1", "}",
         "y", "\"", "}", "b", "\"", ";">>,
      toks |-> <<Tok("Print", <<"p", "r", "i", "n", "t">>),
               Tok("StrInterp", <<"a">>),
               Tok("StrInterp", <<"x">>),
               Tok("Number", <<"1">>),
               Tok("RBrace", <<"}">>),
               Tok("Str", <<"y">>),
               Tok("RBrace", <<"}">>),
               Tok("Str", <<"b">>),
               Tok("Semi", <<";">>)>>],
     [src |-> <<"{", " ", "{", " ", "p", "r", "i", "n", "t", " ", "\"">> \o <<"$", "{", "1", "}",
         "\"", ";", " ", "}", " ", "p", "r", "i", "n", "t", " ", "\"", "b", "\"", ";", " ", "}">>,
      toks |-> <<Tok("LBrace", <<"{">>),
               Tok("LBrace", <<"{">>),
               Tok("Print", <<"p", "r", "i", "n", "t">>),
               Tok("StrInterp", <<>>),
               Tok("Number", <<"1">>),
               Tok("RBrace", <<"}">>),
               Tok("Str", <<>>),
               Tok("Semi", <<";">>),
               Tok("RBrace", <<"}">>),
               Tok("Print", <<"p", "r", "i", "n", "t">>),
               Tok("Str", <<"b">>),
               Tok("Semi", <<";">>),
               Tok("RBrace", <<"}">>)>>],
     [src |-> <<"p", "r", "i", "n", "t", " ", "\"", "a", "$", "{", " ", "{", "1", "}", " ", "}",
         "b", "\"", ";">>,
      toks |-> <<Tok("Print", <<"p", "r", "i", "n", "t">>),
               Tok("StrInterp", <<"a">>),
               Tok("LBrace", <<"{">>),
               Tok("Number", <<"1">>),
               Tok("RBrace", <<"}">>),
               Tok("RBrace", <<"}">>),
               Tok("Str", <<"b">>),
               Tok("Semi", <<";">>)>>],
     [src |-> <<"{", " ", "}", "b", "\"", ";">>,
      toks |-> <<Tok("LBrace", <<"{">>),
               Tok("RBrace", <<"}">>),
               Tok("Ident", <<"b">>),
               Tok("Str", <<";">>)>>],
     [src |-> <<"\"">> \o <<"$", "{", "1", "}", "b", "\"", ";">>,
      toks |-> <<Tok("StrInterp", <<>>),
               Tok("Number", <<"1">>),
               Tok("RBrace", <<"}">>),
               Tok("Str", <<"b">>),
               Tok("Semi", <<";">>)>>],
     [src |-> <<"\"">> \o <<"$", "{", " ", "{", " ", "\"">> \o <<"$", "{", " ", "{", " ", "}",
         " ", "}", "c", "\"", " ", "}", " ", "}", "d", "\"">>,
      toks |-> <<Tok("StrInterp", <<>>),
               Tok("LBrace", <<"{">>),
               Tok("StrInterp", <<>>),
               Tok("LBrace", <<"{">>),
               Tok("RBrace", <<"}">>),
               Tok("RBrace", <<"}">>),
               Tok("Str", <<"c">>),
               Tok("RBrace", <<"}">>),
               Tok("RBrace", <<"}">>),
               Tok("Str", <<"d">>)>>],
     [src |-> <<"{", " ", "p", "r", "i", "n", "t", " ", "\"", "}", "{", "\"", ";", " ", "}">>,
      toks |-> <<Tok("LBrace", <<"{">>),
               Tok("Print", <<"p", "r", "i", "n", "t">>),
               Tok("Str", <<"}", "{">>),
               Tok("Semi", <<";">>),
               Tok("RBrace", <<"}">>)>>],
     [src |-> <<"{", " ", "\"">> \o <<"$", "{", " ", "}", " ", "}", " ", "b">>,
      toks |-> <<Tok("LBrace", <<"{">>),
               Tok("StrInterp", <<>>),
               Tok("RBrace", <<"}">>),
               Tok("Str", <<" ", "}", " ", "b">>)>>]}

BracePrograms == {cs.src : cs \in BraceCases}

\* the contexts open after the tokens toks: LBrace pushes General, StrInterp
\* pushes StrInterp, RBrace pops
RECURSIVE OpenContexts(_, _)
OpenContexts(toks, n) ==
    IF n = 0 THEN <<>>
    ELSE CASE toks[n].ttype = "LBrace" -> Append(OpenContexts(toks, n - 1), "General")
           [] toks[n].ttype = "StrInterp" -> Append(OpenContexts(toks, n - 1), "StrInterp")
           [] toks[n].ttype = "RBrace" ->
                SubSeq(OpenContexts(toks, n - 1), 1, Len(OpenContexts(toks, n - 1)) - 1)
           [] OTHER -> OpenContexts(toks, n - 1)

\* C24: the scanner yields the tokens of each case; its context stack after
\* the first n tokens is the one the tokens open, and it continues the
\* string after the n-th token exactly when that token is a `}` that closed
\* a StrInterp context.
C24_BraceContextsMatch ==
    \A cs \in BraceCases :
        source = cs.src =>
            /\ TokenTexts(Tokens(source)) = cs.toks
            /\ \A n \in 1..Len(cs.toks) :
                   /\ ScanAll(source, from_source, n).ts.state
                          = OpenContexts(Tokens(source), n)
                   /\ ScanAll(source, from_source, n).ts.force_str
                          <=> /\ cs.toks[n][1] = "RBrace"
                              /\ OpenContexts(Tokens(source), n - 1) # <<>>
                              /\ OpenContexts(Tokens(source), n - 1)[
                                     Len(OpenContexts(Tokens(source), n - 1))] = "StrInterp"

\* a string in an interpolation in a string: the inner `}` continues the
\* inner literal, the outer `}` the outer one
C24_Witness ==
    /\ source = <<"p", "r", "i", "n", "t", " ", "\"", "a", "$", "{", "\"", "x", "$", "{", "1",
        "}", "y", "\"", "}", "b", "\"", ";">>
    /\ source \in BracePrograms
    /\ phase = "done"
    /\ TokenTexts(Tokens(source))[6] = Tok("Str", <<"y">>)
    /\ TokenTexts(Tokens(source))[8] = Tok("Str", <<"b">>)

(***************************************************************************)
(* C25: a `}` without an opener                                            *)
(***************************************************************************)
\* sources with a `}` that closes nothing: after a statement, alone, after
\* a closed block, after a closed interpolation, inside an expression
UnmatchedPrograms ==
    {<<"p", "r", "i", "n", "t", " ", "\"", "h", "i", "\"", ";", " ", "}">>,
     <<"}">>,
     <<"{", " ", "}", " ", "}">>,
     <<"p", "r", "i", "n", "t", " ", "\"", "a", "$", "{", "1", "}", "b", "\"", ";", " ", "}">>,
     <<"p", "r", "i", "n", "t", " ", "1", " ", "}", ";">>}

\* C25: the scanner yields a token for the `}` (it does not abort), and the
\* pipeline ends with the Compiler error.
C25_UnmatchedBraceIsNotFatal ==
    source \in UnmatchedPrograms =>
        /\ \A i \in 1..Len(Tokens(source)) : Tokens(source)[i].ttype # "Panic"
        /\ phase = "done" => result = "Compiler"

(***************************************************************************)
(* C26: assignment targets                                                 *)
(***************************************************************************)
\* expressions that are not a bare variable name parsed at assignment
\* precedence, each with the number of assignments completed inside it (in
\* `a = 1 = c` the value 1 is what is not assignable, and the assignment to
\* a is not reached)
NotAssignable ==
    {[txt |-> <<"a", " ", "+", " ", "b">>, sets |-> 0],
     [txt |-> <<"a", " ", "*", " ", "b">>, sets |-> 0],
     [txt |-> <<"a", " ", "=", "=", " ", "b">>, sets |-> 0],
     [txt |-> <<"a", " ", "<", " ", "b">>, sets |-> 0],
     [txt |-> <<"a", " ", "a", "n", "d", " ", "b">>, sets |-> 0],
     [txt |-> <<"a", " ", "o", "r", " ", "b">>, sets |-> 0],
     [txt |-> <<"a", " ", "?", ":", " ", "b">>, sets |-> 0],
     [txt |-> <<"-", "a">>, sets |-> 0],
     [txt |-> <<"!", "a">>, sets |-> 0],
     [txt |-> <<"(", "a", ")">>, sets |-> 0],
     [txt |-> <<"1">>, sets |-> 0],
     [txt |-> <<"n", "i", "l">>, sets |-> 0],
     [txt |-> <<"\"", "s", "\"">>, sets |-> 0],
     [txt |-> <<"(", "a", " ", "=", " ", "1", ")">>, sets |-> 1],
     [txt |-> <<"a", " ", "=", " ", "1">>, sets |-> 0]}

\* where the expression and its `=` stand: as a statement, printed, as the
\* value of an assignment, as an initializer (all with globals), and as a
\* statement of a block (with locals)
AssignContexts == {"statement", "print", "value", "initializer", "local"}

NotAssignableProgram(e, ctx) ==
    LET head == <<"v", "a", "r", " ", "a", " ", "=", " ", "0", ";", " ", "v", "a", "r", " ", "b",
        " ", "=", " ", "0", ";", " ", "v", "a", "r", " ", "c", " ", "=", " ", "0", ";", " ">>
    IN CASE ctx = "statement" -> head \o e.txt \o <<" ", "=", " ", "c", ";", " ", "p", "r", "i",
        "n", "t", " ", "a", ";">>
         [] ctx = "print" -> head \o <<"p", "r", "i", "n", "t", " ">> \o e.txt \o <<" ", "=", " ",
             "c", ";", " ", "p", "r", "i", "n", "t", " ", "a", ";">>
         [] ctx = "value" -> head \o <<"c", " ", "=", " ">> \o e.txt \o <<" ", "=", " ", "2", ";",
             " ", "p", "r", "i", "n", "t", " ", "a", ";">>
         [] ctx = "initializer" -> head \o <<"v", "a", "r", " ", "d", " ", "=",
             " ">> \o e.txt \o <<" ", "=", " ", "c", ";", " ", "p", "r", "i", "n", "t", " ", "a",
             ";">>
         [] ctx = "local" -> <<"{", " ">> \o head \o e.txt \o <<" ", "=", " ", "c", ";", " ", "p",
             "r", "i", "n", "t", " ", "a", ";", " ", "}">>

\* the assignments compiled before the error: one SetGlobal for each of the
\* three global declarations, the ones inside the expression, and the one
\* of `c = ` in the context "value" is not reached
NotAssignableCases ==
    {[src |-> NotAssignableProgram(e, ctx),
      sets |-> e.sets + (IF ctx = "local" THEN 0 ELSE 3)] :
        e \in NotAssignable, ctx \in AssignContexts}

NotAssignablePrograms == {cs.src : cs \in NotAssignableCases}

\* `a = b = 7` with globals and with locals
ChainGlobal == <<"v", "a", "r", " ", "a", " ", "=", " ", "0", ";", " ", "v", "a", "r", " ", "b",
    " ", "=", " ", "1", ";", " ", "a", " ", "=", " ", "b", " ", "=", " ", "7", ";", " ", "p", "r",
    "i", "n", "t", " ", "a", ";", " ", "p", "r", "i", "n", "t", " ", "b", ";">>

ChainLocal == <<"{", " ", "v", "a", "r", " ", "a", " ", "=", " ", "0", ";", " ", "v", "a", "r",
    " ", "b", " ", "=", " ", "1", ";", " ", "a", " ", "=", " ", "b", " ", "=", " ", "7", ";", " ",
    "p", "r", "i", "n", "t", " ", "a", ";", " ", "p", "r", "i", "n", "t", " ", "b", ";", " ", "}">>

ChainPrograms == {ChainGlobal, ChainLocal}

\* the instructions of the chunk from ptr on, as <<opcode, operand>>
RECURSIVE EmittedCode(_, _)
EmittedCode(k, ptr) ==
    IF ChunkIterator_next(k, ptr).kind # "some" THEN <<>>
    ELSE <<<<ChunkIterator_next(k, ptr).bc.op, ChunkIterator_next(k, ptr).bc.arg>>>>
             \o EmittedCode(k, ChunkIterator_next(k, ptr).ptr)

\* the number of SetGlobal and SetLocal instructions in code
SetCount(code) ==
    Cardinality({i \in 1..Len(code) : code[i][1] \in {"SetGlobal", "SetLocal"}})

\* the code of the two chains: the value, the assignment to b, the
\* assignment to a
ChainGlobalCode ==
    <<<<"Constant", 0>>, <<"SetGlobal", 0>>, <<"Pop", 0>>,
      <<"Constant", 1>>, <<"SetGlobal", 1>>, <<"Pop", 0>>,
      <<"Constant", 2>>, <<"SetGlobal", 1>>, <<"SetGlobal", 0>>, <<"Pop", 0>>,
      <<"GetGlobal", 0>>, <<"Print", 0>>, <<"GetGlobal", 1>>, <<"Print", 0>>,
      <<"Return", 0>>>>

ChainLocalCode ==
    <<<<"Constant", 0>>, <<"Constant", 1>>,
      <<"Constant", 2>>, <<"SetLocal", 1>>, <<"SetLocal", 0>>, <<"Pop", 0>>,
      <<"GetLocal", 0>>, <<"Print", 0>>, <<"GetLocal", 1>>, <<"Print", 0>>,
      <<"Pop", 0>>, <<"Pop", 0>>, <<"Return", 0>>>>

\* C26: an `=` after an expression that is not a bare variable name is the
\* compile error "not assignable": the pipeline returns Compiler, nothing
\* runs and no SetGlobal or SetLocal is emitted for that `=`; `a = b = 7`
\* compiles to the value, the assignment to b, the assignment to a, and
\* both variables hold 7.
C26_OnlyVariablesAreAssignable ==
    phase = "done" =>
        /\ \A cs \in NotAssignableCases :
               source = cs.src =>
                   /\ result = "Compiler"
                   /\ comp.err = "Left hand side of the assignment is not assignable"
                   /\ vm.out = <<>>
                   /\ SetCount(EmittedCode(comp.chunk, 0)) = cs.sets
        /\ source \in ChainPrograms =>
               /\ result = "Ok"
               /\ vm.out = <<<<"7">>, <<"7">>>>
               /\ source = ChainGlobal => EmittedCode(comp.chunk, 0) = ChainGlobalCode
               /\ source = ChainLocal => EmittedCode(comp.chunk, 0) = ChainLocalCode

\* `a + b = c;` after the three declarations has ended with the error
C26_Witness ==
    /\ phase = "done"
    /\ source = NotAssignableProgram([txt |-> <<"a", " ", "+", " ", "b">>, sets |-> 0], "statement")
    /\ source \in NotAssignablePrograms
    /\ result = "Compiler"
    /\ comp.err = "Left hand side of the assignment is not assignable"
    /\ SetCount(EmittedCode(comp.chunk, 0)) = 3

(***************************************************************************)
(* The specification of the claims about Scope: the calls compilation      *)
(* makes on the scope and on the global bindings                           *)
(***************************************************************************)
\* the greatest block depth and the greatest number of locals
MaxDepth == 2

MaxLocals == 3

\* the names of the locals
LocalNames == {<<"a">>, <<"b">>}

\* a call of Scope::increment_depth (a `{`)
IncrementDepth ==
    /\ phase = "bind"
    /\ comp.scope.depth < MaxDepth
    /\ comp' = [comp EXCEPT !.scope = increment_depth(@)]
    /\ UNCHANGED <<source, phase, vm, result>>

\* a call of Scope::decrement_depth (a `}`)
DecrementDepth ==
    /\ phase = "bind"
    /\ comp.scope.depth > 0
    /\ comp' = [comp EXCEPT !.scope = decrement_depth(@).scope]
    /\ UNCHANGED <<source, phase, vm, result>>

\* a successful call of Scope::add_local (a declaration inside a block)
AddLocal ==
    /\ phase = "bind"
    /\ comp.scope.depth > 0
    /\ Len(comp.scope.locals) < MaxLocals
    /\ \E name \in LocalNames, mutable \in BOOLEAN :
           /\ add_local(comp.scope, name, mutable).ok
           /\ comp' = [comp EXCEPT !.scope = add_local(@, name, mutable).scope]
    /\ UNCHANGED <<source, phase, vm, result>>

\* a call of GlobalBindings::declare_binding for a name that locals use too
\* (a declaration at depth 0)
DeclareGlobal ==
    /\ phase = "bind"
    /\ comp.scope.depth = 0
    /\ \E name \in LocalNames :
           comp' = [comp EXCEPT !.global_bindings = declare_binding(@, name).g]
    /\ UNCHANGED <<source, phase, vm, result>>

SpecScope ==
    StartBindings /\ [][IncrementDepth \/ DecrementDepth \/ AddLocal \/ DeclareGlobal]_vars

\* the compiler of the state, about to compile the text src
CompilerAt(src) ==
    [Compiler_new(src) EXCEPT !.scope = comp.scope,
                              !.global_bindings = comp.global_bindings]

\* the depth of the rightmost local called name, -1 when there is none
RightmostDepth(scope, name) ==
    IF find_index(scope, name) < 0 THEN -1
    ELSE scope.locals[find_index(scope, name) + 1].depth

(***************************************************************************)
(* C27: redeclaration and shadowing                                        *)
(***************************************************************************)
\* `var <name> = 1;` and `val <name> = 1;`
DeclarationOf(name, mutable) ==
    (IF mutable THEN <<"v", "a", "r", " ">> ELSE <<"v", "a", "l", " ">>) \o name \o <<" ", "=",
        " ", "1", ";">>

\* the declaration compiled in the state's scope
Declared(name, mutable) == compile_decl(CompilerAt(DeclarationOf(name, mutable)))

\* C27: in a block, add_local fails exactly when the rightmost local of
\* that name has the current depth; the declaration is then the error
\* "Cannot redeclare", and otherwise it succeeds and the name stands for the
\* new local, whatever locals of smaller depth and globals carry the name.
\* Outside blocks the declaration of a declared global is the error
\* "already declared".
C27_RedeclarationAndShadowing ==
    phase = "bind" =>
        \A name \in LocalNames :
            /\ comp.scope.depth > 0 =>
                   \A mutable \in BOOLEAN :
                       /\ add_local(comp.scope, name, mutable).ok
                              <=> RightmostDepth(comp.scope, name) # comp.scope.depth
                       /\ RightmostDepth(comp.scope, name) = comp.scope.depth =>
                              Declared(name, mutable).err
                                  = "Cannot redeclare variable '{}' in the same scope"
                       /\ RightmostDepth(comp.scope, name) # comp.scope.depth =>
                              /\ Declared(name, mutable).err = "ok"
                              /\ Declared(name, mutable).scope.locals
                                     = Append(comp.scope.locals,
                                              [depth |-> comp.scope.depth, name |-> name,
                                               mutable |-> mutable])
                              /\ find_index(Declared(name, mutable).scope, name)
                                     = Len(comp.scope.locals)
                              /\ Declared(name, mutable).global_bindings
                                     = comp.global_bindings
            /\ comp.scope.depth = 0 /\ name \in DOMAIN comp.global_bindings.global_slots =>
                   Declared(name, TRUE).err = "Variable '{}' already declared"
            /\ comp.scope.depth = 0 /\ name \notin DOMAIN comp.global_bindings.global_slots =>
                   Declared(name, TRUE).err = "ok"

\* at depth 2 with a local a of depth 1 and the global a: the declaration of
\* a succeeds
C27_Witness ==
    /\ phase = "bind"
    /\ comp.scope.depth = 2
    /\ RightmostDepth(comp.scope, <<"a">>) = 1
    /\ <<"a">> \in DOMAIN comp.global_bindings.global_slots
    /\ Declared(<<"a">>, TRUE).err = "ok"

(***************************************************************************)
(* C28: the frame effect of a block                                        *)
(***************************************************************************)
\* blocks that compile in every scope, each with the opcodes of its code:
\* the Pops that end a block are one for each local declared directly in it
BlockCases ==
    {[src |-> <<"{", " ", "}">>, ops |-> <<>>],
     [src |-> <<"{", " ", "v", "a", "r", " ", "a", " ", "=", " ", "1", ";", " ", "v", "a", "r",
         " ", "b", " ", "=", " ", "2", ";", " ", "}">>,
      ops |-> <<"Constant", "Constant", "Pop", "Pop">>],
     [src |-> <<"{", " ", "v", "a", "r", " ", "a", " ", "=", " ", "1", ";", " ", "{", " ", "v",
         "a", "r", " ", "b", " ", "=", " ", "2", ";", " ", "v", "a", "r", " ", "a", " ", "=", " ",
         "3", ";", " ", "}", " ", "p", "r", "i", "n", "t", " ", "a", ";", " ", "}">>,
      ops |-> <<"Constant", "Constant", "Constant", "Pop", "Pop", "GetLocal", "Print",
                "Pop">>],
     [src |-> <<"{", " ", "{", " ", "{", " ", "v", "a", "r", " ", "a", " ", "=", " ", "1", ";",
         " ", "}", " ", "}", " ", "v", "a", "l", " ", "b", " ", "=", " ", "2", ";", " ", "}">>,
      ops |-> <<"Constant", "Pop", "Constant", "Pop">>],
     [src |-> <<"{", " ", "v", "a", "r", " ", "a", " ", "=", " ", "1", ";", " ", "a", " ", "=",
         " ", "2", ";", " ", "}">>,
      ops |-> <<"Constant", "Constant", "SetLocal", "Pop", "Pop">>],
     [src |-> <<"{", " ", "f", "o", "r", " ", "(", "v", "a", "r", " ", "i", " ", "=", " ", "0",
         ";", " ", "i", " ", "<", " ", "1", ";", " ", "i", " ", "=", " ", "i", " ", "+", " ", "1",
         ")", " ", "p", "r", "i", "n", "t", " ", "i", ";", " ", "}">>,
      ops |-> <<"Constant", "GetLocal", "Constant", "Lt", "JumpF", "JumpRelative",
                "GetLocal", "Constant", "Add", "SetLocal", "Pop", "JumpRelative",
                "Pop", "GetLocal", "Print", "JumpRelative", "Pop", "Pop">>]}

\* the block compiled in the state's scope
BlockCompiled(src) == compile_decl(CompilerAt(src))

\* after is the compiler after the block: no error, its scope is the scope
\* before the block and its code has the opcodes ops
BlockLeaves(after, before, ops) ==
    /\ after.err = "ok"
    /\ after.scope = before
    /\ EmittedSeq(after.chunk, 0) = ops

\* C28: the depths of the locals never decrease from first to last and
\* never exceed the current depth; a block compiled in this scope leaves
\* the depth and the locals as they were and ends with one Pop for each
\* local declared directly in it.
C28_BlockLeavesScope ==
    phase = "bind" =>
        /\ \A i, j \in 1..Len(comp.scope.locals) :
               i <= j => comp.scope.locals[i].depth <= comp.scope.locals[j].depth
        /\ \A i \in 1..Len(comp.scope.locals) :
               comp.scope.locals[i].depth \in 1..comp.scope.depth
        /\ \A cs \in BlockCases : BlockLeaves(BlockCompiled(cs.src), comp.scope, cs.ops)

\* in a block with the local a, the block that shadows a twice has been
\* compiled and the scope is as before
C28_Witness ==
    /\ phase = "bind"
    /\ comp.scope.depth = 1
    /\ Len(comp.scope.locals) = 1
    /\ comp.scope.locals[1].name = <<"a">>
    /\ BlockLeaves(BlockCompiled(<<"{", " ", "v", "a", "r", " ", "a", " ", "=", " ", "1", ";",
        " ", "{", " ", "v", "a", "r", " ", "b", " ", "=", " ", "2", ";", " ", "v", "a", "r", " ",
        "a", " ", "=", " ", "3", ";", " ", "}", " ", "p", "r", "i", "n", "t", " ", "a", ";", " ",
        "}">>),
                   comp.scope,
                   <<"Constant", "Constant", "Constant", "Pop", "Pop", "GetLocal", "Print",
                     "Pop">>)

(***************************************************************************)
(* C29: labels and jumps of a compiled program                             *)
(***************************************************************************)
\* the offsets of the jumps among the instructions at starts
JumpOffsets(k, starts) ==
    {o \in starts : ChunkIterator_next(k, o).bc.op \in {"JumpF", "JumpRelative"}}

\* the last declaration is compiled and Compiler::compile is about to finish
\* a program that compiles
AboutToFinish ==
    /\ phase = "compile"
    /\ peek(comp).ttype = "None"
    /\ compile_finish(comp).err = "ok"

\* the chunk Compiler::compile returns
FinishedChunk == compile_finish(comp).chunk

\* the chunk before is the chunk with its patches pending, after is the
\* chunk resolve_monkey_patches leaves, starts are its instruction offsets
ResolvedJumps(before, after, starts) ==
    /\ \A i \in 1..Len(before.labels) :
           /\ before.label_binds[i] = 1
           /\ before.labels[i] \in starts
    /\ after.pending_patches = <<>>
    /\ \A i \in 1..Len(before.pending_patches) :
           ChunkIterator_next(after, before.pending_patches[i].at).bc
               = BC(before.pending_patches[i].op,
                    before.labels[before.pending_patches[i].label + 1]
                        - before.pending_patches[i].at)
    /\ JumpOffsets(after, starts)
           = {before.pending_patches[i].at : i \in 1..Len(before.pending_patches)}
    /\ \A o \in JumpOffsets(after, starts) :
           o + ChunkIterator_next(after, o).bc.arg \in starts

\* the finished chunk has a backward and a forward jump
JumpsBothWays(k, starts) ==
    /\ \E o \in JumpOffsets(k, starts) : ChunkIterator_next(k, o).bc.arg < 0
    /\ \E o \in JumpOffsets(k, starts) : ChunkIterator_next(k, o).bc.arg > 0

\* C29: when a program compiles, every label it allocated has been bound
\* exactly once when the patches are resolved, no patch is pending after
\* that, the jumps of the code are the patched instructions, and the operand
\* of each is its label's offset minus the jump's own offset, so that the
\* VM's jump to offset + operand reaches the start of an instruction of the
\* bytecode.
C29_JumpsLandOnInstructions ==
    AboutToFinish =>
        ResolvedJumps(comp.chunk, FinishedChunk, InstructionStarts(FinishedChunk))

\* a program with at least four jumps, one of them backwards, is about to
\* finish
C29_Witness ==
    /\ AboutToFinish
    /\ Len(comp.chunk.pending_patches) >= 4
    /\ JumpsBothWays(FinishedChunk, InstructionStarts(FinishedChunk))

(***************************************************************************)
(* C30: Chunk::push and ChunkIterator::next                                *)
(***************************************************************************)
\* the number of instructions pushed in one run
MaxCode == 2

\* every opcode, the ones with an operand at both ends of its range and at
\* values that fill more than one byte
CodeInstructions ==
    {BC(op, 0) : op \in {"Return", "Nil", "True", "False", "Negate", "Add", "Sub", "Mul",
                         "Div", "Not", "Eq", "Gt", "Lt", "Pop", "Dup", "Print"}}
        \cup {BC("Constant", 0), BC("Constant", 255),
              BC("ConstantLong", 256), BC("ConstantLong", 2147483647),
              BC("SetGlobal", 0), BC("SetGlobal", 65536),
              BC("GetGlobal", 1), BC("GetGlobal", 16777471),
              BC("SetLocal", 128), BC("SetLocal", 256),
              BC("GetLocal", 2), BC("GetLocal", 65535),
              BC("JumpF", -32768), BC("JumpF", 3),
              BC("JumpRelative", -1), BC("JumpRelative", 32767)}

\* an empty chunk; source holds the instructions pushed on it so far
StartCode ==
    /\ source = <<>>
    /\ phase = "push"
    /\ comp = Compiler_new(<<>>)
    /\ vm = VM_new(Chunk_default)
    /\ result = "none"

\* a call of Chunk::push
PushInstruction ==
    /\ phase = "push"
    /\ Len(source) < MaxCode
    /\ \E bc \in CodeInstructions :
           /\ comp' = [comp EXCEPT !.chunk = Chunk_push(@, bc, 1)]
           /\ source' = Append(source, Instr(bc.op, bc.arg, 1))
    /\ UNCHANGED <<phase, vm, result>>

SpecCode == StartCode /\ [][PushInstruction]_vars

\* what ChunkIterator::next returns call after call, from ptr on
RECURSIVE IterateAll(_, _)
IterateAll(k, ptr) ==
    IF ChunkIterator_next(k, ptr).kind # "some" THEN <<>>
    ELSE <<ChunkIterator_next(k, ptr)>> \o IterateAll(k, ChunkIterator_next(k, ptr).ptr)

\* what the iterator has to return for the pushed instructions
PushedItems ==
    [i \in 1..Len(source) |->
        [kind |-> "some", offset |-> OffsetOf(source, i),
         bc |-> BC(source[i].op, source[i].arg), ptr |-> OffsetOf(source, i + 1)]]

\* every byte of the buffer lies in exactly one of the decoded instructions
EveryByteOnce(k, items) ==
    \A b \in 0..(Len(k.bytecode) - 1) :
        Cardinality({i \in 1..Len(items) : items[i].offset <= b /\ b < items[i].ptr}) = 1

\* C30: after any sequence of pushes the bytecode is as long as the pushed
\* instructions together; iterating the chunk yields the pushed
\* instructions in order, each with its operand, at the offset the bytecode
\* had as its length before the push, and leaves the pointer just past the
\* operands, which is the offset of the next instruction; after the last
\* one the iterator is at the end and yields nothing; every byte of the
\* buffer lies in exactly one decoded instruction.
C30_PushIterateRoundTrip ==
    phase = "push" =>
        /\ Len(comp.chunk.bytecode) = OffsetOf(source, Len(source) + 1)
        /\ IterateAll(comp.chunk, 0) = PushedItems
        /\ ChunkIterator_next(comp.chunk, Len(comp.chunk.bytecode)).kind = "none"
        /\ EveryByteOnce(comp.chunk, IterateAll(comp.chunk, 0))

\* a backward jump and a long constant have been pushed and are decoded
C30_Witness ==
    /\ phase = "push"
    /\ source = <<Instr("JumpF", -32768, 1), Instr("ConstantLong", 2147483647, 1)>>
    /\ Len(comp.chunk.bytecode) = 8
    /\ Len(IterateAll(comp.chunk, 0)) = 2

(***************************************************************************)
(* The specification of the claims about VM::interpret on a given chunk    *)
(***************************************************************************)
Chunks == ShortChunks \cup TypedChunks \cup LineChunks

InitChunk == \E k \in Chunks : StartChunk(k)

SpecChunk == InitChunk /\ [][Interpret]_vars

(***************************************************************************)
(* The specification of the statement-level claims                         *)
(***************************************************************************)
Programs ==
    ScopePrograms \cup LocalPrograms \cup ForwardPrograms \cup UndeclaredPrograms
        \cup ValPrograms \cup InterpPrograms \cup MatchPrograms \cup ElvisPrograms
        \cup AndOrPrograms \cup IfPrograms \cup ForPrograms
        \cup BalancePrograms \cup StrayPrograms \cup UnterminatedPrograms \cup NotEqualPrograms
        \cup GlobalPrograms \cup ComparePrograms
        \cup BracePrograms \cup UnmatchedPrograms
        \cup NotAssignablePrograms \cup ChainPrograms

Init == \E src \in Programs : Start(src)

Spec == Init /\ [][Next]_vars
====
